---- MODULE Spec2Model ----
(***************************************************************************)
(* Model of the home-tab file suggester: the searchable catalog kept by    *)
(* HomeTabFileSuggester (this.files), the collection indexed by the fuzzy  *)
(* engine (this.fuzzySearch), the callbacks deferred with                  *)
(* metadataCache.onCleanCache, and the match-intent classifier of          *)
(* MatchAnalyzer.                                                          *)
(***************************************************************************)
EXTENDS Integers, Sequences, FiniteSets, TLC

VARIABLES
    initialised, \* TRUE once the constructor's onCleanCache callback has set this.files and this.fuzzySearch
    files,       \* this.files: a sequence of SearchFile (meaningful once initialised)
    fuse,        \* collection indexed by this.fuzzySearch (meaningful once initialised)
    pending,     \* callbacks registered with onCleanCache that have not run yet (FIFO)
    cacheClean,  \* TRUE when the metadata cache is settled (onCleanCache runs its callback at once)
    reindexLog,  \* collections passed to fuzzySearch.updateSearchArray by the last handler, in call order
    last,        \* the last catalog operation that ran, with the catalog it started from
    roundTrip,   \* a Create and the Delete of the same path that directly followed it
    settings,    \* this.settings of the MatchAnalyzer: autoJumpToHeading, headingJumpStrategy
    cand,        \* classifier input: the suggestion (Fuse result) handed to analyzeMatch
    query,       \* classifier input: the query string handed to analyzeMatch
    analysis,    \* classifier output: the MatchAnalysis returned by analyzeMatch
    results,     \* ranker input: the results of this.fuse.search(query), in the engine's order
    ranked,      \* ranker output: the array rawSearch returns, and which rawSearch produced it
    activeFilter, \* this.activeFilter: the key of the last setFileFilter, or null
    suggest,     \* the last getSuggestions call: its input, the calls it made and how it ended
    ui           \* the suggester's popup: shown with its keyboard scope active, input focus, hideOnBlur

vars == <<initialised, files, fuse, pending, cacheClean, reindexLog, last, roundTrip,
         settings, cand, query, analysis, results, ranked, activeFilter, suggest, ui>>
catalogVars == <<initialised, files, fuse, pending, cacheClean, reindexLog, last, roundTrip>>
classifyVars == <<settings, cand, query, analysis>>
rankVars == <<results, ranked>>
suggesterVars == <<activeFilter, suggest, ui>>

(***************************************************************************)
(* Bounds of the model.                                                    *)
(***************************************************************************)
MaxFiles == 3        \* longest catalog explored
MaxLoad == 2         \* most entries returned by the initial enumeration
MaxPending == 1      \* most callbacks waiting for the cache to settle
MaxUnresolved == 2   \* most unresolved link targets reported at once

Undefined == "undefined"
Paths == {"a.md", "b.md", "c.png"}
MarkdownPaths == {"a.md", "b.md"}

Max(a, b) == IF a >= b THEN a ELSE b
Min(a, b) == IF a <= b THEN a ELSE b

(***************************************************************************)
(* Strings are sequences of UTF-16 code units, as String.prototype sees    *)
(* them.                                                                   *)
(***************************************************************************)
UpperUnits == <<"A", "B", "D", "G", "M", "N", "P", "Q">>
LowerUnits == <<"a", "b", "d", "g", "m", "n", "p", "q">>
Whitespace == {" "}

\* String.prototype.toLowerCase, one code unit
LowerUnit(c) ==
    IF \E i \in 1..Len(UpperUnits) : UpperUnits[i] = c
    THEN LowerUnits[CHOOSE i \in 1..Len(UpperUnits) : UpperUnits[i] = c]
    ELSE c

\* String.prototype.toLowerCase
ToLowerCase(s) == [i \in 1..Len(s) |-> LowerUnit(s[i])]

\* String.prototype.trim
RECURSIVE TrimStart(_)
TrimStart(s) ==
    IF s # <<>> /\ Head(s) \in Whitespace THEN TrimStart(Tail(s)) ELSE s

RECURSIVE TrimEnd(_)
TrimEnd(s) ==
    IF s # <<>> /\ s[Len(s)] \in Whitespace THEN TrimEnd(SubSeq(s, 1, Len(s) - 1)) ELSE s

Trim(s) == TrimEnd(TrimStart(s))

\* String.prototype.split(separator) for a one-unit separator
RECURSIVE SplitFrom(_, _, _)
SplitFrom(s, sep, acc) ==
    IF s = <<>> THEN <<acc>>
    ELSE IF Head(s) = sep THEN <<acc>> \o SplitFrom(Tail(s), sep, <<>>)
    ELSE SplitFrom(Tail(s), sep, Append(acc, Head(s)))

Split(s, sep) == SplitFrom(s, sep, <<>>)

SeqContains(seq, x) == \E i \in 1..Len(seq) : seq[i] = x

(***************************************************************************)
(* JavaScript array primitives used by the handlers (0-based indices).     *)
(***************************************************************************)
\* Array.prototype.findIndex with the predicate f.path === path
FindIndex(arr, path) ==
    IF \E i \in 1..Len(arr) : arr[i].path = path
    THEN (CHOOSE i \in 1..Len(arr) :
            /\ arr[i].path = path
            /\ \A j \in 1..(i - 1) : arr[j].path # path) - 1
    ELSE -1

\* Array.prototype.splice(start, deleteCount): a negative start counts from the end
Splice(arr, start, deleteCount) ==
    LET len == Len(arr)
        relStart == IF start < 0 THEN Max(len + start, 0) ELSE Min(start, len)
        actualDelete == Min(Max(deleteCount, 0), len - relStart)
    IN  SubSeq(arr, 1, relStart) \o SubSeq(arr, relStart + actualDelete + 1, len)

\* Array.prototype.push
Push(arr, e) == Append(arr, e)

\* Array.prototype.includes on objects: reference identity.  An object handed to
\* the suggester is either newly allocated (ref = 0) or the very object stored at
\* arr[ref]; entries stored in an array are identified by their position.
Includes(arr, obj) == obj.ref \in 1..Len(arr)

\* the entry stored when an object is pushed
Stored(obj) == [path |-> obj.path, isUnresolved |-> obj.isUnresolved]

HasPath(arr, path) == \E i \in 1..Len(arr) : arr[i].path = path
CountPath(arr, path) == Cardinality({i \in 1..Len(arr) : arr[i].path = path})
UniquePaths(arr) == \A i, j \in 1..Len(arr) : arr[i].path = arr[j].path => i = j

(***************************************************************************)
(* Entries.                                                                *)
(***************************************************************************)
\* generateSearchFile(file): the entry of an existing file
generateSearchFile(file) ==
    [path |-> file.path, isUnresolved |-> FALSE]

\* getUnresolvedMarkdownFiles(): recomputed placeholders, one new object per target
getUnresolvedMarkdownFiles(targets) ==
    [i \in 1..Len(targets) |-> [ref |-> 0, path |-> targets[i], isUnresolved |-> TRUE]]

(***************************************************************************)
(* updateSearchfilesList: the callback it hands to onCleanCache.           *)
(* file is the TFile as read when the callback runs (path, deleted);       *)
(* oldPath is the argument captured when the event fired.                  *)
(***************************************************************************)
\* if(oldPath){ splice(findIndex(f.path === oldPath), 1); push(generateSearchFile(file)) }
renameBranch(fs, file, oldPath) ==
    IF oldPath # Undefined
    THEN Push(Splice(fs, FindIndex(fs, oldPath), 1), generateSearchFile(file))
    ELSE fs

\* variant: the index found is taken as 1-based
deletedBranchOffByOne(fs, file) ==
    Splice(fs, FindIndex(fs, file.path) + 1, 1)

\* if(file.deleted){ splice(findIndex(f.path === file.path), 1) }
deletedBranch(fs, file) ==
    Splice(fs, FindIndex(fs, file.path), 1)

\* variant: the entry is pushed without looking for its path
createdBranchAlwaysPush(fs, file) ==
    Push(fs, generateSearchFile(file))

\* else { push when absent; replace in place when the entry found is unresolved }
createdBranch(fs, file) ==
    LET fileIndex == FindIndex(fs, file.path)
    IN  IF fileIndex = -1
        THEN Push(fs, generateSearchFile(file))
        ELSE IF fs[fileIndex + 1].isUnresolved
             THEN [fs EXCEPT ![fileIndex + 1] = generateSearchFile(file)]
             ELSE fs

\* the catalog after the callback body, before the trailing updateSearchArray
updateSearchfilesListFiles(fs, file, oldPath) ==
    LET f1 == renameBranch(fs, file, oldPath)
    IN  IF file.deleted
        THEN deletedBranch(f1, file)
        ELSE createdBranch(f1, file)

\* the collections the callback passes to fuzzySearch.updateSearchArray, in call order
updateSearchfilesListReindex(fs, file, oldPath) ==
    << updateSearchfilesListFiles(fs, file, oldPath) >>

(***************************************************************************)
(* updateUnresolvedFiles.                                                  *)
(***************************************************************************)
\* unresolvedFiles.forEach(u => { if(!this.files.includes(u)){ this.files.push(u); newFiles = true } })
RECURSIVE appendUnresolved(_, _)
appendUnresolved(fs, unresolvedFiles) ==
    IF unresolvedFiles = <<>> THEN fs
    ELSE LET u == Head(unresolvedFiles)
         IN  appendUnresolved(IF ~Includes(fs, u) THEN Push(fs, Stored(u)) ELSE fs,
                              Tail(unresolvedFiles))

\* newFiles is set exactly when some placeholder was pushed
newFilesFlag(fs, unresolvedFiles) ==
    \E i \in 1..Len(unresolvedFiles) :
        ~Includes(appendUnresolved(fs, SubSeq(unresolvedFiles, 1, i - 1)), unresolvedFiles[i])

\* variant: updateSearchArray is called inside the forEach, once per placeholder
updateUnresolvedFilesReindexPerEntry(fs, unresolvedFiles) ==
    [i \in 1..Len(unresolvedFiles) |-> appendUnresolved(fs, SubSeq(unresolvedFiles, 1, i))]

\* if(newFiles) this.fuzzySearch.updateSearchArray(this.files)
updateUnresolvedFilesReindex(fs, unresolvedFiles) ==
    IF newFilesFlag(fs, unresolvedFiles)
    THEN << appendUnresolved(fs, unresolvedFiles) >>
    ELSE << >>

(***************************************************************************)
(* File kinds and the filters of the initial load.                         *)
(***************************************************************************)
MarkdownType == <<"m", "a", "r", "k", "d", "o", "w", "n">>
ImageType == <<"i", "m", "a", "g", "e">>
MdExtension == <<"m", "d">>
PngExtension == <<"p", "n", "g">>

\* SearchFile.extension and SearchFile.fileType of the entry at a path
ExtensionOf(path) == IF path \in MarkdownPaths THEN MdExtension ELSE PngExtension
FileTypeOf(path) == IF path \in MarkdownPaths THEN MarkdownType ELSE ImageType

\* isValidExtension(key): key names an extension rather than a file type
isValidExtension(key) == key \in {MdExtension, PngExtension}

\* fileArray.filter(file => isValidExtension(filterKey) ? file.extension === filterKey : file.fileType === filterKey)
filterSearchFileArray(filterKey, fileArray) ==
    SelectSeq(fileArray,
              LAMBDA f : IF isValidExtension(filterKey)
                         THEN ExtensionOf(f.path) = filterKey
                         ELSE FileTypeOf(f.path) = filterKey)

\* additionalExtensions.split(',').map(ext => ext.trim().toLowerCase()).filter(ext => ext.length > 0)
parseExtensions(additionalExtensions) ==
    LET parts == Split(additionalExtensions, ",")
        mapped == [i \in 1..Len(parts) |-> ToLowerCase(Trim(parts[i]))]
    IN  SelectSeq(mapped, LAMBDA ext : Len(ext) > 0)

getAdditionalExtensionFiles(sett, fs) ==
    IF sett.additionalExtensions = <<>> THEN <<>>
    ELSE LET extensions == parseExtensions(sett.additionalExtensions)
         IN  IF Len(extensions) = 0 THEN <<>>
             ELSE SelectSeq(fs, LAMBDA f : SeqContains(extensions, ToLowerCase(ExtensionOf(f.path))))

\* this.files as assigned by the constructor's onCleanCache callback
initialFiles(sett, allFiles) ==
    IF sett.markdownOnly
    THEN LET filteredFiles == filterSearchFileArray(MarkdownType, allFiles)
         IN  IF sett.additionalExtensions # <<>>
             THEN filteredFiles \o getAdditionalExtensionFiles(sett, allFiles)
             ELSE filteredFiles
    ELSE allFiles

(***************************************************************************)
(* Inputs from the host.                                                   *)
(***************************************************************************)
AdditionalExtensionSettings ==
    { <<>>, <<"p", "n", "g">>, <<" ", "P", "N", "G", ",">> }

SettingsSet ==
    { [markdownOnly |-> FALSE, additionalExtensions |-> <<>>] } \cup
    { [markdownOnly |-> TRUE, additionalExtensions |-> x] : x \in AdditionalExtensionSettings }

\* sequences over S without repetition, of length at most n
RECURSIVE DistinctSeqs(_, _)
DistinctSeqs(S, n) ==
    IF n = 0 THEN { <<>> }
    ELSE LET shorter == DistinctSeqs(S, n - 1)
         IN  shorter \cup { q \in { Append(r, y) : r \in shorter, y \in S } :
                             \A i, j \in 1..Len(q) : q[i] = q[j] => i = j }

\* getSearchFiles(unresolvedLinks): one entry per file, placeholders for unresolved markdown targets
SearchFilesFor(pathSeq, unresolvedSet) ==
    [i \in 1..Len(pathSeq) |->
        [path |-> pathSeq[i], isUnresolved |-> pathSeq[i] \in unresolvedSet]]

LoadCatalogs ==
    { SearchFilesFor(ps, u) : ps \in DistinctSeqs(Paths, MaxLoad), u \in SUBSET MarkdownPaths }

\* metadataCache.unresolvedLinks: link targets that name no existing file
UnresolvedTargets(fs) ==
    { t \in DistinctSeqs(MarkdownPaths, MaxUnresolved) :
        \A i \in 1..Len(t), j \in 1..Len(fs) : fs[j].path = t[i] => fs[j].isUnresolved }

TFileStates == [path : Paths, deleted : BOOLEAN]

\* what a callback can read from the TFile it closed over: a callback that ran at
\* once sees the file as the event left it, a queued one sees later changes too
FileAt(event, oldPath, queued) ==
    { f \in TFileStates :
        /\ (event = "delete" => f.deleted)
        /\ (event # "delete" /\ ~queued => ~f.deleted)
        /\ (oldPath # Undefined /\ ~queued => f.path # oldPath) }

NoOp == [op |-> "none", path |-> Undefined, oldPath |-> Undefined, targets |-> <<>>, pre |-> <<>>]

NoRoundTrip == [stage |-> "none", path |-> Undefined, pre |-> <<>>]

\* history of Create(e) directly followed by Delete(e.path)
RoundTripAfter(rt, kind, path, pre) ==
    IF kind = "create"
    THEN [stage |-> "created", path |-> path, pre |-> pre]
    ELSE IF kind = "delete" /\ rt.stage = "created" /\ rt.path = path
         THEN [rt EXCEPT !.stage = "deleted"]
         ELSE NoRoundTrip

OpKind(file, oldPath) ==
    IF oldPath # Undefined
    THEN (IF file.deleted THEN "renameDeleted" ELSE "rename")
    ELSE (IF file.deleted THEN "delete" ELSE "create")

\* the classifier has not been asked anything
NoCandidate ==
    [item |-> [basename |-> <<>>, aliases |-> <<>>, title |-> <<>>, headings |-> <<>>],
     matches |-> <<>>]
NoAnalysis ==
    [intent |-> "none", confidence |-> [k |-> "num", n |-> 0, d |-> 1],
     shouldJumpToHeading |-> FALSE, matchedHeading |-> <<>>,
     displayInfo |-> [showHeading |-> FALSE, showAlias |-> FALSE, showTitle |-> FALSE,
                      highlightType |-> "file", primaryMatch |-> <<>>,
                      matchedAlias |-> <<>>, matchedTitle |-> <<>>]]
\* rawSearch has not been called
NotRanked == [by |-> "none", threw |-> FALSE, order |-> <<>>]
DefaultSettings == [autoJumpToHeading |-> TRUE, headingJumpStrategy |-> "smart"]

\* this.activeFilter before any setFileFilter
NoFilter == <<>>
\* getSuggestions has not been called
NotAsked == [input |-> <<>>, calls |-> <<>>, outcome |-> "none", ready |-> FALSE]
\* the popup is not shown, its keyboard scope is not active, the input has
\* focus, hideOnBlur is not set, and no selection has been handled
ClosedPopup == [open |-> FALSE, focused |-> TRUE, hideOnBlur |-> <<>>, handled |-> "none"]

LoadToken == [cb |-> "load", event |-> "none", oldPath |-> Undefined]
UpdateToken(event, oldPath) == [cb |-> "update", event |-> event, oldPath |-> oldPath]
FilterToken(filterKey) == [cb |-> "filter", event |-> "none", oldPath |-> Undefined, key |-> filterKey]


(***************************************************************************)
(* Initial state: the constructor has run.  When the cache was settled the *)
(* load callback has already run; otherwise it waits in the queue.         *)
(***************************************************************************)
Init ==
    /\ cacheClean \in BOOLEAN
    /\ initialised = cacheClean
    /\ files \in (IF cacheClean
                  THEN { initialFiles(sett, all) : sett \in SettingsSet, all \in LoadCatalogs }
                  ELSE { <<>> })
    /\ fuse = files
    /\ pending = (IF cacheClean THEN <<>> ELSE <<LoadToken>>)
    /\ reindexLog = <<>>
    /\ last = (IF cacheClean THEN [NoOp EXCEPT !.op = "load"] ELSE NoOp)
    /\ roundTrip = NoRoundTrip
    /\ settings = DefaultSettings
    /\ cand = NoCandidate
    /\ query = <<>>
    /\ analysis = NoAnalysis
    /\ results = <<>>
    /\ ranked = NotRanked
    /\ activeFilter = NoFilter
    /\ suggest = NotAsked
    /\ ui = ClosedPopup

(***************************************************************************)
(* Callbacks.                                                              *)
(***************************************************************************)
\* constructor: onCleanCache(() => { this.files = ...; this.fuzzySearch = new FileFuzzySearch(this.files, ...) })
LoadCallback ==
    \E sett \in SettingsSet, all \in LoadCatalogs :
        /\ files' = initialFiles(sett, all)
        /\ fuse' = files'
        /\ initialised' = TRUE
        /\ reindexLog' = <<>>
        /\ last' = [NoOp EXCEPT !.op = "load"]
        /\ roundTrip' = NoRoundTrip

\* updateSearchfilesList: the body of the callback
\* a callback that runs before the load callback reads this.files or
\* this.fuzzySearch while they are undefined
UseBeforeLoad ==
    /\ last' = [NoOp EXCEPT !.op = "TypeError"]
    /\ UNCHANGED <<initialised, files, fuse, reindexLog, roundTrip>>

UpdateCallback(event, oldPath, queued) ==
    IF ~initialised THEN UseBeforeLoad
    ELSE
    /\ \E file \in FileAt(event, oldPath, queued) :
        LET log == updateSearchfilesListReindex(files, file, oldPath)
        IN  /\ files' = updateSearchfilesListFiles(files, file, oldPath)
            /\ Len(files') <= MaxFiles
            /\ reindexLog' = log
            /\ fuse' = (IF log = <<>> THEN fuse ELSE log[Len(log)])
            /\ last' = [op |-> OpKind(file, oldPath), path |-> file.path,
                        oldPath |-> oldPath, targets |-> <<>>, pre |-> files]
            /\ roundTrip' = RoundTripAfter(roundTrip, OpKind(file, oldPath), file.path, files)
    /\ UNCHANGED initialised

\* the collection setFileFilter hands to the engine
filteredCollection(sett, filterKey, filesToFilter) ==
    IF sett.markdownOnly /\ sett.additionalExtensions # <<>> /\ filterKey = MarkdownType
    THEN filterSearchFileArray(filterKey, filesToFilter)
             \o getAdditionalExtensionFiles(sett, filesToFilter)
    ELSE filterSearchFileArray(filterKey, filesToFilter)

\* setFileFilter: the body of the callback; the settings are read and, under
\* markdownOnly, the files are enumerated afresh when it runs
FilterCallback(filterKey) ==
    IF ~initialised THEN UseBeforeLoad
    ELSE
    \E collection \in { filteredCollection(sett, filterKey, IF sett.markdownOnly THEN all ELSE files) :
                            sett \in SettingsSet, all \in LoadCatalogs } :
            /\ fuse' = collection
            /\ reindexLog' = << collection >>
            /\ last' = [op |-> "filter", path |-> Undefined, oldPath |-> Undefined,
                        targets |-> <<>>, pre |-> files]
            /\ roundTrip' = NoRoundTrip
            /\ UNCHANGED <<initialised, files>>

RunCallback(token, queued) ==
    IF token.cb = "load"
    THEN LoadCallback
    ELSE IF token.cb = "filter"
    THEN FilterCallback(token.key)
    ELSE UpdateCallback(token.event, token.oldPath, queued)

\* metadataCache.onCleanCache(cb): run cb at once when the cache is settled, else queue it
onCleanCache(token) ==
    IF cacheClean
    THEN /\ RunCallback(token, FALSE)
         /\ UNCHANGED <<pending, cacheClean>>
    ELSE /\ Len(pending) < MaxPending
         /\ pending' = Append(pending, token)
         /\ UNCHANGED <<initialised, files, fuse, cacheClean, reindexLog, last, roundTrip>>

(***************************************************************************)
(* Actions.                                                                *)
(***************************************************************************)
\* vault.on('create', file => this.updateSearchfilesList(file))
OnCreate ==
    /\ onCleanCache(UpdateToken("create", Undefined))
    /\ UNCHANGED <<classifyVars, rankVars, suggesterVars>>

\* vault.on('delete', file => this.updateSearchfilesList(file))
OnDelete ==
    /\ onCleanCache(UpdateToken("delete", Undefined))
    /\ UNCHANGED <<classifyVars, rankVars, suggesterVars>>

\* vault.on('rename', (file, oldPath) => this.updateSearchfilesList(file, oldPath))
OnRename ==
    /\ \E oldPath \in Paths : onCleanCache(UpdateToken("rename", oldPath))
    /\ UNCHANGED <<classifyVars, rankVars, suggesterVars>>

\* metadataCache.on('resolved', () => this.updateUnresolvedFiles())
OnResolved ==
    /\ initialised
    /\ \E targets \in UnresolvedTargets(files) :
        LET unresolvedFiles == getUnresolvedMarkdownFiles(targets)
            log == updateUnresolvedFilesReindex(files, unresolvedFiles)
        IN  /\ files' = appendUnresolved(files, unresolvedFiles)
            /\ Len(files') <= MaxFiles
            /\ reindexLog' = log
            /\ fuse' = (IF log = <<>> THEN fuse ELSE log[Len(log)])
            /\ last' = [op |-> "resolve", path |-> Undefined, oldPath |-> Undefined,
                        targets |-> targets, pre |-> files]
            /\ roundTrip' = NoRoundTrip
    /\ UNCHANGED <<initialised, pending, cacheClean, settings, cand, query, analysis, results, ranked,
                   activeFilter, suggest, ui>>

\* a 'resolved' signal before the initial load: if(this.files) is false, nothing happens
OnResolvedEarly ==
    /\ ~initialised
    /\ UNCHANGED vars

\* the metadata cache starts work: later callbacks are queued
CacheDirty ==
    /\ cacheClean
    /\ cacheClean' = FALSE
    /\ UNCHANGED <<initialised, files, fuse, pending, reindexLog, last, roundTrip,
                   settings, cand, query, analysis, results, ranked,
                   activeFilter, suggest, ui>>

\* the cache settles: the queued callbacks run in registration order
RunPending ==
    /\ ~cacheClean
    /\ pending # <<>>
    /\ RunCallback(Head(pending), TRUE)
    /\ pending' = Tail(pending)
    /\ UNCHANGED <<cacheClean, settings, cand, query, analysis, results, ranked,
                   activeFilter, suggest, ui>>

CacheSettled ==
    /\ ~cacheClean
    /\ pending = <<>>
    /\ cacheClean' = TRUE
    /\ UNCHANGED <<initialised, files, fuse, pending, reindexLog, last, roundTrip,
                   settings, cand, query, analysis, results, ranked,
                   activeFilter, suggest, ui>>

Next ==
    \/ OnCreate
    \/ OnDelete
    \/ OnRename
    \/ OnResolved
    \/ OnResolvedEarly
    \/ CacheDirty
    \/ RunPending
    \/ CacheSettled

Spec == Init /\ [][Next]_vars

(***************************************************************************)
(* The suggester on top of the catalog: the user types a query             *)
(* (getSuggestions) and picks a file-type or extension filter              *)
(* (setFileFilter) while the host keeps sending notifications.             *)
(***************************************************************************)
\* close(): it returns early when the input is not the active element and
\* hideOnBlur (true when unset) is off; otherwise super.close() hides the
\* popup and pops its keyboard scope
close(u) ==
    IF ~u.focused /\ u.hideOnBlur = <<FALSE>> THEN u ELSE [u EXCEPT !.open = FALSE]

\* variant: the input is not trimmed before the test
getSuggestionsUntrimmed(inputStr, ready) ==
    LET q == inputStr
    IN  IF q = <<>>
        THEN [input |-> inputStr, calls |-> <<>>, outcome |-> "empty", ready |-> ready]
        ELSE IF ~ready
        THEN [input |-> inputStr, calls |-> <<"resetForNewSearch", "rawSearch">>,
              outcome |-> "TypeError", ready |-> ready]
        ELSE [input |-> inputStr, calls |-> <<"resetForNewSearch", "rawSearch">>,
              outcome |-> "results", ready |-> ready]

\* getSuggestions(inputStr): what it calls and how it ends; ready tells
\* whether this.fuzzySearch has been assigned
getSuggestions(inputStr, ready) ==
    LET q == Trim(inputStr)
    IN  IF q = <<>>
        THEN [input |-> inputStr, calls |-> <<>>, outcome |-> "empty", ready |-> ready]
        ELSE IF ~ready
        THEN [input |-> inputStr, calls |-> <<"resetForNewSearch", "rawSearch">>,
              outcome |-> "TypeError", ready |-> ready]
        ELSE [input |-> inputStr, calls |-> <<"resetForNewSearch", "rawSearch">>,
              outcome |-> "results", ready |-> ready]

\* the user edits the search input: the base class asks for suggestions
GetSuggestions ==
    /\ \E inputStr \in { <<>>, <<" ", " ">>, <<" ", "a">> } :
          suggest' = getSuggestions(inputStr, initialised)
    /\ UNCHANGED <<catalogVars, classifyVars, rankVars, activeFilter, ui>>

\* setFileFilter(filterKey)
SetFileFilter ==
    /\ \E filterKey \in {MarkdownType, ImageType, PngExtension} :
          /\ activeFilter' = <<filterKey>>
          /\ onCleanCache(FilterToken(filterKey))
    /\ ui' = close(ui)
    /\ UNCHANGED <<classifyVars, rankVars, suggest>>

\* the notifications interleaved with the user's queries
NextQuery == Next \/ GetSuggestions

SpecQuery == Init /\ [][NextQuery]_vars

\* the notifications interleaved with the user's choice of filter
NextFilter == Next \/ SetFileFilter

SpecFilter == Init /\ [][NextFilter]_vars

(***************************************************************************)
(* JavaScript numbers of the confidence computation: exact fractions       *)
(* n/d in lowest terms, NaN, +Infinity, and the TypeError a step can throw.*)
(***************************************************************************)
RECURSIVE Gcd(_, _)
Gcd(a, b) == IF b = 0 THEN a ELSE Gcd(b, a % b)

Num(n, d) ==
    LET g == Gcd(n, d)
    IN  [k |-> "num", n |-> n \div g, d |-> d \div g]

NaN == [k |-> "nan", n |-> 0, d |-> 1]
Infinity == [k |-> "inf", n |-> 1, d |-> 1]
NegInfinity == [k |-> "ninf", n |-> -1, d |-> 1]
Thrown == [k |-> "throw", n |-> 0, d |-> 1]
Zero == Num(0, 1)
One == Num(1, 1)

\* a / b for non-negative integers
Div(a, b) ==
    IF b # 0 THEN Num(a, b)
    ELSE IF a = 0 THEN NaN ELSE Infinity

\* x > y; FALSE when either side is NaN
Gt(x, y) ==
    /\ x.k # "nan" /\ y.k # "nan"
    /\ \/ (x.k = "inf" /\ y.k # "inf")
       \/ (y.k = "ninf" /\ x.k # "ninf")
       \/ (x.k = "num" /\ y.k = "num" /\ x.n * y.d > y.n * x.d)

\* Math.min(x, y)
MathMin(x, y) ==
    IF x.k = "nan" \/ y.k = "nan" THEN NaN
    ELSE IF Gt(x, y) THEN y ELSE x

\* x * y; Infinity * 0 is NaN
Mul(x, y) ==
    IF x.k = "nan" \/ y.k = "nan" THEN NaN
    ELSE IF x.k = "num" /\ y.k = "num" THEN Num(x.n * y.n, x.d * y.d)
    ELSE IF x.n = 0 \/ y.n = 0 THEN NaN
    ELSE IF (x.n > 0) = (y.n > 0) THEN Infinity ELSE NegInfinity

Neg(x) ==
    IF x.k = "nan" THEN NaN
    ELSE IF x.k = "inf" THEN NegInfinity
    ELSE IF x.k = "ninf" THEN Infinity
    ELSE Num(0 - x.n, x.d)

\* x + y; Infinity + -Infinity is NaN
Add(x, y) ==
    IF x.k = "nan" \/ y.k = "nan" THEN NaN
    ELSE IF x.k = "num" /\ y.k = "num" THEN Num(x.n * y.d + y.n * x.d, x.d * y.d)
    ELSE IF x.k = "num" THEN y
    ELSE IF y.k = "num" \/ y.k = x.k THEN x
    ELSE NaN

\* x - y
Sub(x, y) == Add(x, Neg(y))

\* Math.abs(x)
MathAbs(x) == IF x.k = "num" /\ x.n < 0 THEN Neg(x) ELSE IF x.k = "ninf" THEN Infinity ELSE x

\* Math.max(x, y)
MathMax(x, y) ==
    IF x.k = "nan" \/ y.k = "nan" THEN NaN
    ELSE IF Gt(y, x) THEN y ELSE x

(***************************************************************************)
(* MatchAnalyzer.                                                          *)
(***************************************************************************)
\* an optional string: <<>> is undefined, <<s>> is the string s
None == <<>>
Some(s) == <<s>>

\* a span: isString is typeof value === 'string'; a missing value is kept as <<>>
NoMatch == [key |-> "none", value |-> <<>>, indices |-> <<>>, isString |-> FALSE]

\* matches.find(m => m.key === key)
Find(matches, key) ==
    IF \E i \in 1..Len(matches) : matches[i].key = key
    THEN matches[CHOOSE i \in 1..Len(matches) :
                    /\ matches[i].key = key
                    /\ \A j \in 1..(i - 1) : matches[j].key # key]
    ELSE NoMatch

\* matches.filter(m => m.key === key)
Filter(matches, key) == SelectSeq(matches, LAMBDA m : m.key = key)

\* levenshteinDistance: matrix[i][j] for the prefixes str2[0..i) and str1[0..j)
RECURSIVE LevCell(_, _, _, _)
LevCell(str1, str2, i, j) ==
    IF i = 0 THEN j
    ELSE IF j = 0 THEN i
    ELSE IF str2[i] = str1[j]
         THEN LevCell(str1, str2, i - 1, j - 1)
         ELSE Min(LevCell(str1, str2, i - 1, j - 1) + 1,
                  Min(LevCell(str1, str2, i, j - 1) + 1,
                      LevCell(str1, str2, i - 1, j) + 1))

levenshteinDistance(str1, str2) == LevCell(str1, str2, Len(str2), Len(str1))

calculateSimilarity(str1, str2) ==
    LET longer == IF Len(str1) > Len(str2) THEN str1 ELSE str2
        shorter == IF Len(str1) > Len(str2) THEN str2 ELSE str1
    IN  IF Len(longer) = 0 THEN One
        ELSE Num(Len(longer) - levenshteinDistance(longer, shorter), Len(longer))

\* the for loop over match.indices: the longest [start, end] run
RECURSIVE MaxMatchLength(_)
MaxMatchLength(indices) ==
    IF indices = <<>> THEN 0
    ELSE Max(Head(indices)[2] - Head(indices)[1] + 1, MaxMatchLength(Tail(indices)))

\* variant: a span is taken whether or not it carries a string
hasStringValueUnchecked(match) == match.key # "none"

\* match && typeof match.value === 'string'
hasStringValue(match) == match.key # "none" /\ match.isString

\* variant: a match that does not start at index 0 weighs 0.5
positionPenaltyHalf == Num(1, 2)

\* the weight of a match that does not start at index 0
positionPenalty == Num(7, 10)

calculateMatchConfidence(match, q) ==
    IF match.value = <<>> \/ ~match.isString THEN Zero
    ELSE LET value == ToLowerCase(match.value)
             normalizedQuery == ToLowerCase(q)
         IN  IF value = normalizedQuery THEN One
             ELSE IF match.indices = <<>> THEN Thrown
             ELSE LET lengthRatio == MathMin(Div(MaxMatchLength(match.indices),
                                                 Len(normalizedQuery)), One)
                      firstMatch == match.indices[1]
                      positionWeight == IF firstMatch[1] = 0 THEN One ELSE positionPenalty
                      similarity == calculateSimilarity(value, normalizedQuery)
                  IN  Mul(Mul(lengthRatio, positionWeight), similarity)

DisplayInfo(showHeading, showAlias, showTitle, highlightType, primaryMatch, matchedAlias, matchedTitle) ==
    [showHeading |-> showHeading, showAlias |-> showAlias, showTitle |-> showTitle,
     highlightType |-> highlightType, primaryMatch |-> primaryMatch,
     matchedAlias |-> matchedAlias, matchedTitle |-> matchedTitle]

Analysis(intent, confidence, matchedHeading, displayInfo) ==
    [intent |-> intent, confidence |-> confidence, shouldJumpToHeading |-> FALSE,
     matchedHeading |-> matchedHeading, displayInfo |-> displayInfo]

\* a TypeError raised while classifying leaves analyzeMatch without a result
ThrownAnalysis ==
    Analysis("TypeError", Thrown, None,
             DisplayInfo(FALSE, FALSE, FALSE, "file", <<>>, None, None))

\* the for loop over aliasMatches; best = [alias, confidence, exact]
RECURSIVE BestAlias(_, _, _)
BestAlias(aliasMatches, normalizedQuery, best) ==
    IF aliasMatches = <<>> THEN best
    ELSE LET match == Head(aliasMatches)
         IN  IF match.value = <<>> \/ ~match.isString
             THEN BestAlias(Tail(aliasMatches), normalizedQuery, best)
             ELSE LET exactMatch == ToLowerCase(match.value) = normalizedQuery
                      confidence == calculateMatchConfidence(match, normalizedQuery)
                  IN  IF confidence.k = "throw"
                      THEN [alias |-> None, confidence |-> Thrown, exact |-> FALSE]
                      ELSE IF exactMatch \/ Gt(confidence, best.confidence)
                      THEN LET new == [alias |-> Some(match.value),
                                       confidence |-> confidence, exact |-> exactMatch]
                           IN  IF exactMatch THEN new
                               ELSE BestAlias(Tail(aliasMatches), normalizedQuery, new)
                      ELSE BestAlias(Tail(aliasMatches), normalizedQuery, best)

\* variant: the acceptance threshold of a title span is 2/3
titleThresholdTwoThirds == Num(2, 3)

\* confidence > 0.6 accepts a title span
titleThreshold == Num(6, 10)

\* variant: the default result reports 0.5
defaultConfidenceHalf == Num(1, 2)

\* the confidence of the default result
defaultConfidence == Num(3, 10)

\* the tail of the cascade: title, then heading content, then the default
titleHeadingDefault(normalizedQuery, titleMatch, headingMatch, item) ==
    LET titleConfidence == calculateMatchConfidence(titleMatch, normalizedQuery)
        headingConfidence == calculateMatchConfidence(headingMatch, normalizedQuery)
    IN  IF hasStringValue(titleMatch) /\ titleConfidence.k = "throw"
        THEN ThrownAnalysis
        ELSE IF hasStringValue(titleMatch) /\ Gt(titleConfidence, titleThreshold)
        THEN Analysis("TITLE_MATCH", titleConfidence, None,
                      DisplayInfo(FALSE, FALSE, TRUE, "title", titleMatch.value,
                                  None, Some(titleMatch.value)))
        ELSE IF hasStringValue(headingMatch)
        THEN IF headingConfidence.k = "throw" THEN ThrownAnalysis
             ELSE Analysis("HEADING_CONTENT", headingConfidence, Some(headingMatch.value),
                           DisplayInfo(TRUE, FALSE, FALSE, "heading", headingMatch.value,
                                       None, None))
        ELSE Analysis("FILE_PARTIAL", defaultConfidence, None,
                      DisplayInfo(FALSE, FALSE, FALSE, "file", item.basename, None, None))

\* the alias step and what follows it
aliasThenRest(normalizedQuery, matches, titleMatch, headingMatch, item) ==
    LET aliasMatches == Filter(matches, "aliases")
        best == BestAlias(aliasMatches, normalizedQuery,
                          [alias |-> None, confidence |-> Zero, exact |-> FALSE])
    IN  IF best.confidence.k = "throw" THEN ThrownAnalysis
        ELSE IF Len(aliasMatches) > 0 /\ best.alias # None
        THEN Analysis("FILE_ALIAS", IF best.exact THEN One ELSE best.confidence, None,
                      DisplayInfo(FALSE, TRUE, FALSE, "alias", best.alias[1],
                                  best.alias, None))
        ELSE titleHeadingDefault(normalizedQuery, titleMatch, headingMatch, item)

\* variant: the exact-file test compares the basename without lowercasing it
calculateMatchIntentCaseSensitive(q, matches, basenameMatch, aliasMatch, titleMatch, headingMatch, item) ==
    LET normalizedQuery == Trim(ToLowerCase(q))
    IN  IF basenameMatch.key # "none" /\ item.basename # <<>>
        THEN LET confidence == calculateMatchConfidence(basenameMatch, normalizedQuery)
             IN  IF confidence.k = "throw" THEN ThrownAnalysis
                 ELSE IF item.basename = normalizedQuery
                 THEN Analysis("EXACT_FILE", One, None,
                               DisplayInfo(FALSE, FALSE, FALSE, "file", item.basename,
                                           None, None))
                 ELSE Analysis("FILE_PARTIAL", confidence, None,
                               DisplayInfo(FALSE, FALSE, FALSE, "file", item.basename,
                                           None, None))
        ELSE aliasThenRest(normalizedQuery, matches, titleMatch, headingMatch, item)

calculateMatchIntent(q, matches, basenameMatch, aliasMatch, titleMatch, headingMatch, item) ==
    LET normalizedQuery == Trim(ToLowerCase(q))
    IN  IF basenameMatch.key # "none" /\ item.basename # <<>>
        THEN LET exactMatch == ToLowerCase(item.basename) = normalizedQuery
                 confidence == calculateMatchConfidence(basenameMatch, normalizedQuery)
             IN  IF confidence.k = "throw" THEN ThrownAnalysis
                 ELSE IF exactMatch
                 THEN Analysis("EXACT_FILE", One, None,
                               DisplayInfo(FALSE, FALSE, FALSE, "file", item.basename,
                                           None, None))
                 ELSE Analysis("FILE_PARTIAL", confidence, None,
                               DisplayInfo(FALSE, FALSE, FALSE, "file", item.basename,
                                           None, None))
        ELSE aliasThenRest(normalizedQuery, matches, titleMatch, headingMatch, item)

\* variant: one threshold for every query length
smartThresholdFlat(queryLength) == Num(5, 100)

\* the dynamic threshold of the smart strategy
smartThreshold(queryLength) ==
    IF queryLength <= 3 THEN Num(5, 100)
    ELSE IF queryLength <= 6 THEN Num(8, 100)
    ELSE Num(15, 100)

\* variant: the always strategy applies the smart threshold
shouldJumpToHeadingAlwaysThreshold(sett, an, q) ==
    IF ~sett.autoJumpToHeading \/ an.matchedHeading = None \/ an.matchedHeading = Some(<<>>)
    THEN FALSE
    ELSE LET strategy == IF sett.headingJumpStrategy = Undefined
                         THEN "smart" ELSE sett.headingJumpStrategy
         IN  IF strategy = "never" THEN FALSE
             ELSE IF an.intent = "HEADING_CONTENT"
                  THEN Gt(an.confidence, smartThreshold(Len(q)))
                  ELSE FALSE

\* variant: the never strategy is handled by the default case
shouldJumpToHeadingNeverAsDefault(sett, an, q) ==
    IF ~sett.autoJumpToHeading \/ an.matchedHeading = None \/ an.matchedHeading = Some(<<>>)
    THEN FALSE
    ELSE LET strategy == IF sett.headingJumpStrategy = Undefined
                         THEN "smart" ELSE sett.headingJumpStrategy
         IN  IF strategy = "always" THEN an.intent = "HEADING_CONTENT"
             ELSE IF an.intent = "HEADING_CONTENT"
                  THEN Gt(an.confidence, smartThreshold(Len(q)))
                  ELSE FALSE

shouldJumpToHeading(sett, an, q) ==
    IF ~sett.autoJumpToHeading \/ an.matchedHeading = None \/ an.matchedHeading = Some(<<>>)
    THEN FALSE
    ELSE LET strategy == IF sett.headingJumpStrategy = Undefined
                         THEN "smart" ELSE sett.headingJumpStrategy
         IN  IF strategy = "never" THEN FALSE
             ELSE IF strategy = "always" THEN an.intent = "HEADING_CONTENT"
             ELSE IF an.intent = "HEADING_CONTENT"
                  THEN Gt(an.confidence, smartThreshold(Len(q)))
                  ELSE FALSE

\* variant: without the final rewrite, the display information of the intent
\* step is kept when no jump is decided
getDisplayInfoKeepIntentStep(an, basenameMatch, headingMatch) ==
    IF an.shouldJumpToHeading /\ an.matchedHeading # None /\ an.matchedHeading # Some(<<>>)
    THEN DisplayInfo(TRUE, FALSE, FALSE, "heading", an.matchedHeading[1], None, None)
    ELSE an.displayInfo

getDisplayInfo(an, basenameMatch, headingMatch) ==
    IF an.shouldJumpToHeading /\ an.matchedHeading # None /\ an.matchedHeading # Some(<<>>)
    THEN DisplayInfo(TRUE, FALSE, FALSE, "heading", an.matchedHeading[1], None, None)
    ELSE IF an.displayInfo.showAlias \/ an.displayInfo.showTitle
    THEN an.displayInfo
    ELSE DisplayInfo(FALSE, FALSE, FALSE, "file",
                     IF hasStringValue(basenameMatch)
                     THEN basenameMatch.value
                     ELSE an.displayInfo.primaryMatch,
                     None, None)

analyzeMatch(sett, suggestion, q) ==
    LET matches == suggestion.matches
        item == suggestion.item
        basenameMatch == Find(matches, "basename")
        aliasMatch == Find(matches, "aliases")
        titleMatch == Find(matches, "title")
        headingMatch == Find(matches, "headings")
        an0 == calculateMatchIntent(q, matches, basenameMatch, aliasMatch, titleMatch,
                                    headingMatch, item)
        an1 == [an0 EXCEPT !.shouldJumpToHeading = shouldJumpToHeading(sett, an0, q)]
    IN  IF an0.intent = "TypeError" THEN an0
        ELSE [an1 EXCEPT !.displayInfo = getDisplayInfo(an1, basenameMatch, headingMatch)]

(***************************************************************************)
(* Classifier inputs.  A suggestion is a Fuse result: the entry and the    *)
(* spans Fuse reports, each with the field it was found in (key), the text *)
(* of that field (value) and a non-empty list of inclusive [start, end]    *)
(* index pairs.  The basename span, when present, quotes item.basename.    *)
(***************************************************************************)
MaxQueryLen == 2
MaxAliasSpans == 2

QueryUnits == {"a", "b", "A", " "}

RECURSIVE StringsUpTo(_)
StringsUpTo(n) ==
    IF n = 0 THEN { <<>> }
    ELSE StringsUpTo(n - 1) \union
         { Append(s, c) : s \in { t \in StringsUpTo(n - 1) : Len(t) = n - 1 }, c \in QueryUnits }

\* longer queries, one for each threshold tier of the smart strategy, and one
\* whose trailing space moves it into the next tier
LongQueries ==
    { <<"a", "a", "a">>,
      <<"a", "a", "a", " ">>,
      <<"a", "b", "a", "b">>,
      <<"a", "b", "a", "b", "a", "b", "a">> }

Queries == StringsUpTo(MaxQueryLen) \union LongQueries

\* the two UTF-16 code units of one character outside the basic plane
HighSurrogate == "D83D"
LowSurrogate == "DE00"

Basenames == { <<"a">>, <<"A", "b">>, <<" ", "a">> }

Span(key, value, indices) ==
    [key |-> key, value |-> value, indices |-> indices, isString |-> TRUE]

\* every single run [start, end] inside the value
BasenameSpans(value) ==
    { Span("basename", value, << r >>) :
        r \in { p \in (0..(Len(value) - 1)) \X (0..(Len(value) - 1)) : p[1] <= p[2] } }

AliasSpans ==
    { Span("aliases", <<"a">>, << <<0, 0>> >>),
      Span("aliases", <<"A", "b">>, << <<1, 1>> >>) }

TitleSpans ==
    { Span("title", <<"A", "b">>, << <<0, 1>> >>),
      Span("title", <<"a", "a", "b">>, << <<0, 1>> >>) }

HeadingSpans ==
    { Span("headings", <<"b", "a">>, << <<0, 0>>, <<1, 1>> >>),
      Span("headings", <<"A", "b">>, << <<1, 1>> >>),
      Span("headings", <<"b", "b", "b", "b", "a">>, << <<4, 4>> >>),
      Span("headings", <<"a", "b", "a", "b">>, << <<2, 3>> >>),
      Span("headings", <<HighSurrogate, LowSurrogate, "a">>, << <<2, 2>> >>) }

RECURSIVE SeqsUpTo(_, _)
SeqsUpTo(S, n) ==
    IF n = 0 THEN { <<>> }
    ELSE SeqsUpTo(S, n - 1) \union
         { Append(q, x) : q \in { t \in SeqsUpTo(S, n - 1) : Len(t) = n - 1 }, x \in S }

Optional(S) == { <<>> } \union { <<x>> : x \in S }

\* the field values the spans quote
RECURSIVE Values(_)
Values(spans) ==
    IF spans = <<>> THEN <<>> ELSE <<Head(spans).value>> \o Values(Tail(spans))

\* a SearchFile whose optional fields hold what the spans quote
Entry(b, as, ts, hs) ==
    [basename |-> b,
     aliases |-> IF as = <<>> THEN None ELSE Some(Values(as)),
     title |-> IF ts = <<>> THEN None ELSE Some(ts[1].value),
     headings |-> IF hs = <<>> THEN None ELSE Some(Values(hs))]

\* Fuse lists the spans of a result in the order of the search keys
Candidates ==
    { [item |-> Entry(b, as, ts, hs), matches |-> bs \o as \o ts \o hs] :
        b \in Basenames,
        bs \in UNION { Optional(BasenameSpans(v)) : v \in Basenames },
        as \in SeqsUpTo(AliasSpans, MaxAliasSpans),
        ts \in Optional(TitleSpans),
        hs \in Optional(HeadingSpans) }

ConsistentCandidates ==
    { c \in Candidates :
        \A i \in 1..Len(c.matches) :
            c.matches[i].key = "basename" => c.matches[i].value = c.item.basename }

AnalyzerSettings ==
    { [autoJumpToHeading |-> FALSE, headingJumpStrategy |-> "smart"],
      [autoJumpToHeading |-> TRUE, headingJumpStrategy |-> "never"],
      [autoJumpToHeading |-> TRUE, headingJumpStrategy |-> "always"],
      [autoJumpToHeading |-> TRUE, headingJumpStrategy |-> "smart"],
      [autoJumpToHeading |-> FALSE, headingJumpStrategy |-> "always"],
      [autoJumpToHeading |-> TRUE, headingJumpStrategy |-> Undefined] }

(***************************************************************************)
(* The classifier on its own: a suggestion and a query are handed to       *)
(* analyzeMatch once; the catalog plays no part.                           *)
(***************************************************************************)
InitClassify ==
    /\ initialised = FALSE
    /\ files = <<>>
    /\ fuse = <<>>
    /\ pending = <<>>
    /\ cacheClean = TRUE
    /\ reindexLog = <<>>
    /\ last = NoOp
    /\ roundTrip = NoRoundTrip
    /\ settings \in AnalyzerSettings
    /\ cand \in ConsistentCandidates
    /\ query \in Queries
    /\ analysis = NoAnalysis
    /\ results = <<>>
    /\ ranked = NotRanked
    /\ activeFilter = NoFilter
    /\ suggest = NotAsked
    /\ ui = ClosedPopup

\* this.matchAnalyzer.analyzeMatch(suggestion, query)
AnalyzeMatch ==
    /\ analysis = NoAnalysis
    /\ analysis' = analyzeMatch(settings, cand, query)
    /\ UNCHANGED <<settings, cand, query>>
    /\ UNCHANGED <<catalogVars, rankVars, suggesterVars>>

NextClassify == AnalyzeMatch

SpecClassify == InitClassify /\ [][NextClassify]_vars

(***************************************************************************)
(* The classifier on spans of any shape: a span may lack its value, quote  *)
(* an empty value or list no index pair, and the entry may lack the field  *)
(* a span names.                                                           *)
(***************************************************************************)
SpanNoValue(key, indices) ==
    [key |-> key, value |-> <<>>, indices |-> indices, isString |-> FALSE]

AnySpans(key) ==
    { Span(key, <<"a">>, << <<0, 0>> >>),
      Span(key, <<"a">>, <<>>),
      Span(key, <<"A", "b">>, << <<1, 1>> >>),
      Span(key, <<>>, << <<0, 0>> >>),
      SpanNoValue(key, << <<0, 0>> >>) }

AnyEntries ==
    [basename : { <<>>, <<"a">> },
     aliases : { None, Some(<< <<"a">> >>) },
     title : { None, Some(<<"a">>) },
     headings : { None, Some(<< <<"a">> >>) }]

AnyCandidates ==
    { [item |-> e, matches |-> bs \o as \o ts \o hs] :
        e \in AnyEntries,
        bs \in Optional(AnySpans("basename")),
        as \in Optional(AnySpans("aliases")),
        ts \in Optional(AnySpans("title")),
        hs \in Optional(AnySpans("headings")) }

AnyQueries == { <<>>, <<"a">>, <<"a", "b">> }

JumpingSettings ==
    { [autoJumpToHeading |-> TRUE, headingJumpStrategy |-> "always"],
      [autoJumpToHeading |-> TRUE, headingJumpStrategy |-> "smart"] }

InitAnySpan ==
    /\ initialised = FALSE
    /\ files = <<>>
    /\ fuse = <<>>
    /\ pending = <<>>
    /\ cacheClean = TRUE
    /\ reindexLog = <<>>
    /\ last = NoOp
    /\ roundTrip = NoRoundTrip
    /\ settings \in JumpingSettings
    /\ cand \in AnyCandidates
    /\ query \in AnyQueries
    /\ analysis = NoAnalysis
    /\ results = <<>>
    /\ ranked = NotRanked
    /\ activeFilter = NoFilter
    /\ suggest = NotAsked
    /\ ui = ClosedPopup

SpecAnySpan == InitAnySpan /\ [][NextClassify]_vars

(***************************************************************************)
(* fuzzySearch.rawSearch: the results of the engine are sorted in place    *)
(* by a comparator.  A result is [item, score, matches]; the score is      *)
(* optional (a.score ?? 1).  The matches array and the item are always     *)
(* supplied by the engine for SearchFile collections, so the guard         *)
(* !result.matches || !result.item never fires.                            *)
(***************************************************************************)
Quality(ratio, priority, isExact) == [ratio |-> ratio, priority |-> priority, isExact |-> isExact]

ExactQuality == Quality(One, 1, TRUE)

\* m && m.value: the span exists and its value is a non-empty string
Truthy(match) == match.key # "none" /\ match.value # <<>>

\* one field of getMatchQuality: an exact value ends the search, a larger ratio replaces the best
fieldQuality(match, queryLower, priority, best) ==
    LET value == ToLowerCase(match.value)
        ratio == Div(Len(queryLower), Len(value))
    IN  IF ~Truthy(match) THEN best
        ELSE IF value = queryLower THEN ExactQuality
        ELSE IF Gt(ratio, best.ratio) THEN Quality(ratio, priority, FALSE)
        ELSE best

\* the loop over the alias spans; an exact result returns at once
RECURSIVE aliasQuality(_, _, _)
aliasQuality(aliasMatches, queryLower, best) ==
    IF aliasMatches = <<>> \/ best.isExact THEN best
    ELSE aliasQuality(Tail(aliasMatches), queryLower,
                      fieldQuality(Head(aliasMatches), queryLower, 20, best))

getMatchQuality(result, q) ==
    LET queryLower == ToLowerCase(q)
        afterBasename ==
            fieldQuality(Find(result.matches, "basename"), queryLower, 10, Quality(Zero, 999, FALSE))
        afterAliases == aliasQuality(Filter(result.matches, "aliases"), queryLower, afterBasename)
    IN  IF afterAliases.isExact THEN afterAliases
        ELSE fieldQuality(Find(result.matches, "title"), queryLower, 30, afterAliases)

\* a.score ?? 1
ScoreOf(result) == IF result.score = None THEN One ELSE result.score[1]

\* ratios closer than this are treated as equal
ratioTolerance == Num(1, 100)

\* the comparator handed to results.sort
compareQuality(a, b, q) ==
    LET aQuality == getMatchQuality(a, q)
        bQuality == getMatchQuality(b, q)
        ratioDiff == Sub(bQuality.ratio, aQuality.ratio)
    IN  IF aQuality.isExact # bQuality.isExact
        THEN (IF aQuality.isExact THEN Num(-1, 1) ELSE One)
        ELSE IF Gt(MathAbs(ratioDiff), ratioTolerance) THEN ratioDiff
        ELSE IF aQuality.priority # bQuality.priority
        THEN Num(aQuality.priority - bQuality.priority, 1)
        ELSE Sub(ScoreOf(a), ScoreOf(b))

(***************************************************************************)
(* The earlier rawSearch: four additive factors per result, the higher     *)
(* sum first.                                                              *)
(***************************************************************************)
matchedCountWeight == Num(3, 10)
matchedRatioWeight == Num(3, 1)
indexWeight == Num(2, 1)

getMatchedCount(item) ==
    IF item.matches = <<>> THEN Zero
    ELSE Mul(Num(Len(item.matches), 1), matchedCountWeight)

\* the loop returns inside its first iteration: the first run of the first
\* string-valued span that has runs decides
getBestRatio(item) ==
    LET usable == SelectSeq(item.matches, LAMBDA m : m.isString /\ m.indices # <<>>)
        m == usable[1]
        matchLen == m.indices[1][2] - m.indices[1][1] + 1
    IN  IF usable = <<>> THEN Zero
        ELSE Mul(Div(matchLen, Len(m.value)), matchedRatioWeight)

getFieldPriority(matches) ==
    IF Find(matches, "aliases") # NoMatch THEN 3
    ELSE IF Find(matches, "basename") # NoMatch THEN 3
    ELSE IF Find(matches, "headings") # NoMatch THEN 2
    ELSE IF Find(matches, "title") # NoMatch THEN 4
    ELSE 3

\* (1 - position / text.length) * indexWeight of one span; reading the
\* length of a missing value throws
indexScore(m) ==
    IF ~m.isString /\ m.value = <<>> THEN Thrown
    ELSE Mul(Sub(One, Div(m.indices[1][1], Len(m.value))), indexWeight)

RECURSIVE getMinIndexFrom(_, _)
getMinIndexFrom(matches, maxScore) ==
    IF matches = <<>> \/ maxScore.k = "throw" THEN maxScore
    ELSE IF Head(matches).indices = <<>> THEN getMinIndexFrom(Tail(matches), maxScore)
    ELSE LET score == indexScore(Head(matches))
         IN  getMinIndexFrom(Tail(matches),
                             IF score.k = "throw" THEN Thrown ELSE MathMax(maxScore, score))

getMinIndex(matches) == getMinIndexFrom(matches, Zero)

\* aIndex + aPriority + aRatio + aMatchedCount
finalScore(item) ==
    LET index == getMinIndex(item.matches)
    IN  IF index.k = "throw" THEN Thrown
        ELSE Add(Add(Add(index, Num(getFieldPriority(item.matches), 1)), getBestRatio(item)),
                 getMatchedCount(item))

\* the comparator handed to results.sort: bFinalScore - aFinalScore
compareFinalScore(a, b) ==
    IF finalScore(a).k = "throw" \/ finalScore(b).k = "throw" THEN Thrown
    ELSE Sub(finalScore(b), finalScore(a))

(***************************************************************************)
(* Array.prototype.sort(comparefn).  The sort is stable.  For a comparator *)
(* that is not consistent over the elements the order is implementation-   *)
(* defined: every permutation is a possible outcome.                       *)
(***************************************************************************)
\* the comparator of the rawSearch named by
comparefn(by, a, b, q) ==
    IF by = "finalScore" THEN compareFinalScore(a, b) ELSE compareQuality(a, b, q)

\* how sort reads the comparator's value: NaN counts as +0
Sign(v) ==
    IF v.k = "inf" THEN 1
    ELSE IF v.k = "ninf" THEN -1
    ELSE IF v.k = "nan" THEN 0
    ELSE IF v.n > 0 THEN 1 ELSE IF v.n < 0 THEN -1 ELSE 0

\* the comparator's value for every pair of positions of list
ComparisonTable(list, by, q) ==
    [i \in 1..Len(list) |-> [j \in 1..Len(list) |-> comparefn(by, list[i], list[j], q)]]

\* a consistent comparator (ECMAScript, Array.prototype.sort): comparing a to
\* itself gives 0, equality is symmetric, and =, < and > are transitive
ConsistentComparator(table) ==
    LET I == DOMAIN table
    IN  /\ \A i, j \in I : table[i][j].k # "nan"
        /\ \A i \in I : Sign(table[i][i]) = 0
        /\ \A i, j \in I : Sign(table[i][j]) = 0 => Sign(table[j][i]) = 0
        /\ \A i, j, k \in I :
            /\ (Sign(table[i][j]) = 0 /\ Sign(table[j][k]) = 0) => Sign(table[i][k]) = 0
            /\ (Sign(table[i][j]) < 0 /\ Sign(table[j][k]) < 0) => Sign(table[i][k]) < 0
            /\ (Sign(table[i][j]) > 0 /\ Sign(table[j][k]) > 0) => Sign(table[i][k]) > 0

IndexPermutations(n) ==
    { p \in [1..n -> 1..n] : \A i, j \in 1..n : p[i] = p[j] => i = j }

\* p lists the positions in sorted order, equal elements in their original order
StableSorted(table, p) ==
    \A i, j \in DOMAIN table :
        i < j => \/ Sign(table[p[i]][p[j]]) < 0
                 \/ (Sign(table[p[i]][p[j]]) = 0 /\ p[i] < p[j])

SortOutcomes(list, table) ==
    LET perms == IF ConsistentComparator(table)
                 THEN { p \in IndexPermutations(Len(list)) : StableSorted(table, p) }
                 ELSE IndexPermutations(Len(list))
    IN  { [i \in 1..Len(list) |-> list[p[i]]] : p \in perms }

\* results.sort(comparefn) with the comparator's values in table: an exception
\* of the comparator ends rawSearch; a single result is never compared
SortWith(by, list, table) ==
    IF \E i, j \in DOMAIN table : i # j /\ table[i][j].k = "throw"
    THEN { [by |-> by, threw |-> TRUE, order |-> <<>>] }
    ELSE { [by |-> by, threw |-> FALSE, order |-> o] : o \in SortOutcomes(list, table) }

Ranked(by, list, q) == SortWith(by, list, ComparisonTable(list, by, q))

(***************************************************************************)
(* The ranker on its own: the engine's results for a query are handed to   *)
(* rawSearch's sort once.                                                  *)
(***************************************************************************)
MaxResults == 3

\* "a" followed by n - 1 times "b"
Padded(n) == [i \in 1..n |-> IF i = 1 THEN "a" ELSE "b"]

Result(item, score, matches) == [item |-> item, score |-> score, matches |-> matches]

FirstUnit == << <<0, 0>> >>
SecondUnit == << <<1, 1>> >>

\* results the engine can return for the queries below; each is another file
RankResults ==
    { Result(Entry(<<"a">>, <<>>, <<>>, <<>>), Some(Zero),
             << Span("basename", <<"a">>, FirstUnit) >>),
      Result(Entry(Padded(12), <<>>, <<>>, <<>>), Some(Num(1, 10)),
             << Span("basename", Padded(12), FirstUnit) >>),
      Result(Entry(<<"b">> \o Padded(11), <<>>, <<>>, <<>>), Some(Num(1, 20)),
             << Span("basename", <<"b">> \o Padded(11), SecondUnit) >>),
      Result(Entry(<<"b">>, << Span("aliases", Padded(11), FirstUnit) >>, <<>>, <<>>), Some(Num(1, 10)),
             << Span("aliases", Padded(11), FirstUnit) >>),
      Result(Entry(<<"b", "b">>, <<>>, << Span("title", Padded(10), FirstUnit) >>, <<>>), Some(Num(1, 10)),
             << Span("title", Padded(10), FirstUnit) >>),
      Result(Entry(<<"B">>, <<>>, <<>>, << Span("headings", <<"b", "a">>, SecondUnit) >>), Some(Num(1, 5)),
             << Span("headings", <<"b", "a">>, SecondUnit) >>),
      Result(Entry(<<"B", "b">>, <<>>, <<>>, << Span("headings", Padded(10), FirstUnit) >>), Some(Num(1, 10)),
             << Span("headings", Padded(10), FirstUnit) >>),
      Result(Entry(<<"b", "B">>, << Span("aliases", <<"A", "b">>, FirstUnit) >>, <<>>, <<>>), None,
             << Span("aliases", <<"A", "b">>, FirstUnit) >>) }

RankQueries == { <<"a">>, <<"A">>, <<"a", "b">> }

InitRank ==
    /\ initialised = FALSE
    /\ files = <<>>
    /\ fuse = <<>>
    /\ pending = <<>>
    /\ cacheClean = TRUE
    /\ reindexLog = <<>>
    /\ last = NoOp
    /\ roundTrip = NoRoundTrip
    /\ settings = DefaultSettings
    /\ cand = NoCandidate
    /\ query \in RankQueries
    /\ analysis = NoAnalysis
    /\ results \in DistinctSeqs(RankResults, MaxResults)
    /\ ranked = NotRanked
    /\ activeFilter = NoFilter
    /\ suggest = NotAsked
    /\ ui = ClosedPopup

\* rawSearch(query) of src/suggester/fuzzySearch.ts
RawSearch ==
    /\ ranked = NotRanked
    /\ ranked' \in Ranked("quality", results, query)
    /\ UNCHANGED <<catalogVars, classifyVars, results, suggesterVars>>

\* rawSearch(query) of the earlier revision
RawSearchFinalScore ==
    /\ ranked = NotRanked
    /\ ranked' \in Ranked("finalScore", results, query)
    /\ UNCHANGED <<catalogVars, classifyVars, results, suggesterVars>>

NextRank == RawSearch \/ RawSearchFinalScore

SpecRank == InitRank /\ [][NextRank]_vars

(***************************************************************************)
(* The ranker on results of any shape: no spans, spans without runs, and   *)
(* spans whose value is empty or missing.                                  *)
(***************************************************************************)
AnyResults ==
    { Result(Entry(<<"a">>, <<>>, <<>>, <<>>), Some(Num(1, 10)), <<>>),
      Result(Entry(<<"a">>, <<>>, <<>>, <<>>), Some(Zero),
             << Span("basename", <<"a">>, FirstUnit) >>),
      Result(Entry(<<"b">>, << Span("aliases", <<"A", "b">>, FirstUnit) >>, <<>>, <<>>), Some(Num(1, 10)),
             << Span("aliases", <<"A", "b">>, FirstUnit) >>),
      Result(Entry(<<"b", "a">>, << Span("aliases", <<"a">>, <<>>) >>, <<>>, <<>>), Some(Num(1, 10)),
             << Span("aliases", <<"a">>, <<>>) >>),
      Result(Entry(<<>>, <<>>, <<>>, <<>>), Some(Num(1, 10)),
             << Span("basename", <<>>, FirstUnit) >>),
      Result(Entry(<<"B">>, <<>>, << Span("title", <<>>, SecondUnit) >>, <<>>), Some(Num(1, 5)),
             << Span("title", <<>>, SecondUnit) >>),
      Result(Entry(<<"b", "b">>, <<>>, <<>>, <<>>), Some(Num(1, 5)),
             << SpanNoValue("headings", FirstUnit) >>) }

InitRankAny ==
    /\ initialised = FALSE
    /\ files = <<>>
    /\ fuse = <<>>
    /\ pending = <<>>
    /\ cacheClean = TRUE
    /\ reindexLog = <<>>
    /\ last = NoOp
    /\ roundTrip = NoRoundTrip
    /\ settings = DefaultSettings
    /\ cand = NoCandidate
    /\ query \in RankQueries
    /\ analysis = NoAnalysis
    /\ results \in DistinctSeqs(AnyResults, MaxResults)
    /\ ranked = NotRanked
    /\ activeFilter = NoFilter
    /\ suggest = NotAsked
    /\ ui = ClosedPopup

SpecRankAny == InitRankAny /\ [][NextRank]_vars

(***************************************************************************)
(* The two-entry catalog of the worked example: the engine returns both    *)
(* entries for the query "plan"; the suggester ranks them and classifies   *)
(* each one when it is rendered or selected.  Fuse reports the alias       *)
(* "plan" of the first entry and the title of the second; the basename     *)
(* "Project Plan" contains the query as well, so a basename span is        *)
(* reported too unless the engine is configured without that key.          *)
(***************************************************************************)
ProjectPlan == <<"P", "r", "o", "j", "e", "c", "t", " ", "P", "l", "a", "n">>
QuarterlyPlanNotes == <<"Q", "u", "a", "r", "t", "e", "r", "l", "y", " ", "P", "l", "a", "n", " ", "N", "o", "t", "e", "s">>
PlanQuery == <<"p", "l", "a", "n">>

\* the first entry: its alias "plan" is matched whole; its basename is
\* reported with the run of "Plan", with the leading "P" as well, or not at all
ProjectPlanResults ==
    LET alias == Span("aliases", <<"p", "l", "a", "n">>, << <<0, 3>> >>)
    IN  { Result(Entry(ProjectPlan, << alias >>, <<>>, <<>>), Some(Num(1, 100)), bs \o << alias >>) :
            bs \in { <<>>,
                     << Span("basename", ProjectPlan, << <<8, 11>> >>) >>,
                     << Span("basename", ProjectPlan, << <<0, 0>>, <<8, 11>> >>) >> } }

\* the second entry: its title is reported with the run of "Plan", alone or
\* after the single letters "a" and "l" of "Quarterly"
QuarterlyResults ==
    { Result(Entry(<<"Q", "4">>, <<>>, ts, <<>>), Some(Num(1, 10)), ts) :
        ts \in { << Span("title", QuarterlyPlanNotes, << <<10, 13>> >>) >>,
                 << Span("title", QuarterlyPlanNotes, << <<2, 2>>, <<7, 7>>, <<10, 13>> >>) >> } }

InitExample ==
    /\ initialised = FALSE
    /\ files = <<>>
    /\ fuse = <<>>
    /\ pending = <<>>
    /\ cacheClean = TRUE
    /\ reindexLog = <<>>
    /\ last = NoOp
    /\ roundTrip = NoRoundTrip
    /\ settings \in AnalyzerSettings
    /\ query = PlanQuery
    /\ results \in UNION { { <<a, b>>, <<b, a>> } : a \in ProjectPlanResults, b \in QuarterlyResults }
    /\ cand \in { [item |-> results[i].item, matches |-> results[i].matches] : i \in 1..2 }
    /\ analysis = NoAnalysis
    /\ ranked = NotRanked
    /\ activeFilter = NoFilter
    /\ suggest = NotAsked
    /\ ui = ClosedPopup

NextExample == AnalyzeMatch \/ RawSearch \/ RawSearchFinalScore

SpecExample == InitExample /\ [][NextExample]_vars

(***************************************************************************)
(* Selecting a suggestion.  The popup is shown, with the keyboard scope of *)
(* the suggester active, while the user types; Enter or a click hands the  *)
(* selected result to useSelectedItem.  The input can lose and regain      *)
(* focus; a blur calls close().                                            *)
(***************************************************************************)
\* which branch of useSelectedItem handles the selection
selectionPath(an, isWebUrl, existing) ==
    IF an.shouldJumpToHeading /\ an.matchedHeading # None /\ an.matchedHeading # Some(<<>>)
    THEN "heading"
    ELSE IF isWebUrl THEN "web"
    ELSE IF existing THEN "open"
    ELSE "create"

\* the popup after the workspace has opened the target: in a new tab the
\* view stays as it was; in the view's own leaf the view is replaced, and
\* whether its teardown closes the popup is decided outside this class
afterNavigation(u, newTab) ==
    IF newTab THEN { u } ELSE { u, [u EXCEPT !.open = FALSE] }

InitSelect ==
    /\ initialised = FALSE
    /\ files = <<>>
    /\ fuse = <<>>
    /\ pending = <<>>
    /\ cacheClean = TRUE
    /\ reindexLog = <<>>
    /\ last = NoOp
    /\ roundTrip = NoRoundTrip
    /\ settings \in { [autoJumpToHeading |-> FALSE, headingJumpStrategy |-> "smart"],
                       [autoJumpToHeading |-> TRUE, headingJumpStrategy |-> "always"],
                       [autoJumpToHeading |-> TRUE, headingJumpStrategy |-> "smart"] }
    /\ cand \in { c \in ConsistentCandidates : c.item.basename = <<"a">> /\ Len(c.matches) <= 1 }
    /\ query \in { <<"a">>, <<"b", " ">> }
    /\ analysis = NoAnalysis
    /\ results = <<>>
    /\ ranked = NotRanked
    /\ activeFilter = NoFilter
    /\ suggest = NotAsked
    /\ ui \in { [ClosedPopup EXCEPT !.hideOnBlur = h] : h \in { <<>>, <<TRUE>>, <<FALSE>> } }

\* open(): the popup is shown and its keyboard scope is pushed
Open ==
    /\ ui.focused
    /\ ui' = [ui EXCEPT !.open = TRUE, !.handled = "none"]
    /\ UNCHANGED <<catalogVars, classifyVars, rankVars, activeFilter, suggest>>

\* the input loses focus: the blur listener calls close()
Blur ==
    /\ ui.focused
    /\ ui' = close([ui EXCEPT !.focused = FALSE, !.handled = "none"])
    /\ UNCHANGED <<catalogVars, classifyVars, rankVars, activeFilter, suggest>>

\* the user clicks into the input again
Focus ==
    /\ ~ui.focused
    /\ ui' = [ui EXCEPT !.focused = TRUE, !.handled = "none"]
    /\ UNCHANGED <<catalogVars, classifyVars, rankVars, activeFilter, suggest>>

\* useSelectedItem(selectedItem, newTab)
UseSelectedItem ==
    /\ ui.open
    /\ \E isWebUrl \in BOOLEAN, existing \in BOOLEAN, newTab \in BOOLEAN :
          LET an == analyzeMatch(settings, cand, Trim(query))
          IN  /\ analysis' = an
              /\ \E u \in afterNavigation(ui, newTab) :
                     ui' = [u EXCEPT !.handled = selectionPath(an, isWebUrl, existing)]
    /\ UNCHANGED <<catalogVars, settings, cand, query, rankVars, activeFilter, suggest>>

NextSelect == Open \/ Blur \/ Focus \/ UseSelectedItem

SpecSelect == InitSelect /\ [][NextSelect]_vars

(***************************************************************************)
(* Properties of the classifier.                                           *)
(***************************************************************************)
Analysed == analysis.intent # "none"

HasSpan(key) == \E i \in 1..Len(cand.matches) : cand.matches[i].key = key

C10_AliasBeforePartial ==
    (/\ Analysed
     /\ HasSpan("basename")
     /\ HasSpan("aliases")
     /\ ToLowerCase(cand.item.basename) # Trim(ToLowerCase(query)))
        => (analysis.intent = "FILE_ALIAS" /\ analysis.intent # "FILE_PARTIAL")

NormalizedQuery == Trim(ToLowerCase(query))

AliasSpansOfCandidate == Filter(cand.matches, "aliases")

\* the basename block of the cascade does not return: the alias step is reached
ReachesAliasStep == ~(HasSpan("basename") /\ cand.item.basename # <<>>)

AliasConfidence(i) == calculateMatchConfidence(AliasSpansOfCandidate[i], NormalizedQuery)

ExactAliases ==
    { i \in 1..Len(AliasSpansOfCandidate) :
        ToLowerCase(AliasSpansOfCandidate[i].value) = NormalizedQuery }

\* C11: when the alias step is reached with one or more alias spans, the
\* intent is file-alias; the alias chosen equals the query case-insensitively
\* if such a span exists (confidence 1.0), otherwise it is the alias span of
\* highest computed confidence, and that confidence is reported.
C11_AliasStepChoosesBest ==
    (Analysed /\ ReachesAliasStep /\ HasSpan("aliases"))
        => /\ analysis.intent = "FILE_ALIAS"
           /\ analysis.displayInfo.matchedAlias # None
           /\ IF ExactAliases # {}
              THEN /\ analysis.confidence = One
                   /\ ToLowerCase(analysis.displayInfo.matchedAlias[1]) = NormalizedQuery
              ELSE \E i \in 1..Len(AliasSpansOfCandidate) :
                       /\ analysis.displayInfo.matchedAlias[1] = AliasSpansOfCandidate[i].value
                       /\ analysis.confidence = AliasConfidence(i)
                       /\ \A j \in 1..Len(AliasSpansOfCandidate) :
                              ~Gt(AliasConfidence(j), AliasConfidence(i))

TitleSpanOfCandidate == Find(cand.matches, "title")

TitleAccepted ==
    /\ HasSpan("title")
    /\ Gt(calculateMatchConfidence(TitleSpanOfCandidate, NormalizedQuery), Num(6, 10))

\* Confidences are exact fractions here and IEEE doubles in the program: the
\* two decide a comparison alike unless a value sits on the threshold itself.
OffThreshold(confidence, thresholds) ==
    \A t \in thresholds : Gt(confidence, t) \/ Gt(t, confidence)

\* C12: when no exact-file, alias or partial-basename step applies, the
\* intent is title-match if and only if a title span exists whose computed
\* confidence is strictly greater than 0.6; otherwise classification falls
\* through to the heading-content step or to the fallback.
C12_TitleIffAboveThreshold ==
    (Analysed /\ ReachesAliasStep /\ ~HasSpan("aliases"))
        => /\ (analysis.intent = "TITLE_MATCH") <=> TitleAccepted
           /\ TitleAccepted =>
                 analysis.confidence =
                     calculateMatchConfidence(TitleSpanOfCandidate, NormalizedQuery)
           /\ ~TitleAccepted =>
                 analysis.intent =
                     (IF HasSpan("headings") THEN "HEADING_CONTENT" ELSE "FILE_PARTIAL")
           /\ HasSpan("title") =>
                 OffThreshold(calculateMatchConfidence(TitleSpanOfCandidate, NormalizedQuery),
                              {Num(6, 10)})

\* a title span scoring 2/3 is accepted
C12_Witness ==
    /\ Analysed /\ ReachesAliasStep /\ ~HasSpan("aliases")
    /\ HasSpan("title")
    /\ analysis.intent = "TITLE_MATCH"
    /\ analysis.confidence = Num(2, 3)

\* C13: a candidate with no basename span, no alias span, no heading span and
\* no accepted title span (a candidate without spans included) is classified
\* file-partial with confidence exactly 0.3 and no heading jump.
C13_FallbackIsPartialAtThreeTenths ==
    (/\ Analysed
     /\ ~HasSpan("basename") /\ ~HasSpan("aliases") /\ ~HasSpan("headings")
     /\ ~TitleAccepted)
        => /\ analysis.intent = "FILE_PARTIAL"
           /\ analysis.confidence = Num(3, 10)
           /\ ~analysis.shouldJumpToHeading
           /\ analysis.matchedHeading = None

C13_Witness ==
    /\ Analysed
    /\ cand.matches = <<>>
    /\ analysis.intent = "FILE_PARTIAL"
    /\ analysis.confidence = Num(3, 10)
    /\ ~analysis.shouldJumpToHeading

\* the entry carries the field a span names
FieldPresent(key) ==
    CASE key = "aliases" -> cand.item.aliases # None
      [] key = "title" -> cand.item.title # None
      [] key = "headings" -> cand.item.headings # None
      [] OTHER -> TRUE

\* the span carries nothing the classifier can use: no string, or for an
\* alias the empty string
Valueless(match) ==
    /\ match.key \in {"aliases", "title", "headings"}
    /\ (~match.isString \/ (match.key = "aliases" /\ match.value = <<>>))

\* C14 as stated: a span whose field is not present on the candidate's entry
\* is ignored: the classification, when one is returned, is the one of the
\* candidate without that span.
C14_AbsentFieldSpanIgnored ==
    (Analysed /\ analysis.intent # "TypeError") =>
        analysis = analyzeMatch(settings,
                                [cand EXCEPT !.matches =
                                    SelectSeq(cand.matches, LAMBDA m : FieldPresent(m.key))],
                                query)

\* C14 as the code has it: an alias span whose value is missing or empty, and
\* a title or heading span whose value is missing, is ignored: the
\* classification is the one of the candidate without it.
C14_ValuelessSpanIgnored ==
    Analysed =>
        analysis = analyzeMatch(settings,
                                [cand EXCEPT !.matches =
                                    SelectSeq(cand.matches, LAMBDA m : ~Valueless(m))],
                                query)

\* a heading span without a value, alone on the candidate: the fallback applies
C14_Witness ==
    /\ Analysed
    /\ Len(cand.matches) = 1
    /\ cand.matches[1].key = "headings"
    /\ ~cand.matches[1].isString
    /\ analysis.intent = "FILE_PARTIAL"
    /\ analysis.confidence = Num(3, 10)

\* the span whose computed confidence analyzeMatch reports
ReportsComputedConfidence ==
    \/ analysis.intent \in {"HEADING_CONTENT", "TITLE_MATCH"}
    \/ (analysis.intent = "FILE_PARTIAL" /\ HasSpan("basename"))

ReportedSpan ==
    IF analysis.intent = "HEADING_CONTENT" THEN Find(cand.matches, "headings")
    ELSE IF analysis.intent = "TITLE_MATCH" THEN Find(cand.matches, "title")
    ELSE Find(cand.matches, "basename")

\* a string as Unicode code points: a surrogate pair is one element
RECURSIVE CodePoints(_)
CodePoints(s) ==
    IF s = <<>> THEN <<>>
    ELSE IF Len(s) >= 2 /\ s[1] = HighSurrogate /\ s[2] = LowSurrogate
         THEN << <<s[1], s[2]>> >> \o CodePoints(SubSeq(s, 3, Len(s)))
         ELSE << <<s[1]>> >> \o CodePoints(Tail(s))

\* a string as UTF-16 code units
CodeUnits(s) == [i \in 1..Len(s) |-> <<s[i]>>]

\* classic Levenshtein distance between the first i elements of s and the
\* first j elements of t
RECURSIVE EditDistance(_, _, _, _)
EditDistance(s, t, i, j) ==
    IF i = 0 THEN j
    ELSE IF j = 0 THEN i
    ELSE Min(EditDistance(s, t, i - 1, j - 1) + (IF s[i] = t[j] THEN 0 ELSE 1),
             Min(EditDistance(s, t, i - 1, j) + 1, EditDistance(s, t, i, j - 1) + 1))

LongestRun(indices) ==
    IF indices = <<>> THEN 0
    ELSE CHOOSE n \in { indices[i][2] - indices[i][1] + 1 : i \in 1..Len(indices) } :
            \A i \in 1..Len(indices) : indices[i][2] - indices[i][1] + 1 <= n

\* lengthRatio x positionWeight x similarity over the elements of v and q
FormulaConfidence(span, v, q) ==
    LET maxLen == Max(Len(v), Len(q))
        lengthRatio == MathMin(Div(LongestRun(span.indices), Len(q)), One)
        positionWeight == IF span.indices[1][1] = 0 THEN Num(10, 10) ELSE Num(7, 10)
        similarity == Num(maxLen - EditDistance(v, q, Len(v), Len(q)), maxLen)
    IN  Mul(Mul(lengthRatio, positionWeight), similarity)

\* C15 as stated: the computed confidence of every span equals
\* lengthRatio x positionWeight x similarity, with the Levenshtein distance
\* between field value and query counted over Unicode code points.
C15_ConfidenceFormulaCodePoints ==
    (Analysed /\ ReportsComputedConfidence) =>
        analysis.confidence =
            FormulaConfidence(ReportedSpan, CodePoints(ToLowerCase(ReportedSpan.value)),
                              CodePoints(NormalizedQuery))

\* C15 as the code has it: the computed confidence is 1.0 when the lowercased
\* field value equals the lowercased query, and otherwise
\* lengthRatio x positionWeight x similarity with lengths and Levenshtein
\* distance counted over UTF-16 code units.
C15_ConfidenceFormulaCodeUnits ==
    (Analysed /\ ReportsComputedConfidence) =>
        analysis.confidence =
            (IF ToLowerCase(ReportedSpan.value) = NormalizedQuery THEN One
             ELSE FormulaConfidence(ReportedSpan, CodeUnits(ToLowerCase(ReportedSpan.value)),
                                    CodeUnits(NormalizedQuery)))

\* a heading of one surrogate pair and "a", matched on the "a", query "a":
\* 1 x 0.7 x (3 - 2) / 3
C15_Witness ==
    /\ Analysed
    /\ analysis.intent = "HEADING_CONTENT"
    /\ ReportedSpan.value = <<HighSurrogate, LowSurrogate, "a">>
    /\ query = <<"a">>
    /\ analysis.confidence = Num(7, 30)

\* C16: for every span (an empty field value or an empty list of index pairs
\* included) and every query (the empty query included), confidence scoring
\* completes without error and returns a number in [0,1].
C16_ConfidenceTotalAndBounded ==
    Analysed =>
        /\ analysis.intent # "TypeError"
        /\ analysis.confidence.k = "num"
        /\ 0 <= analysis.confidence.n
        /\ analysis.confidence.n <= analysis.confidence.d

\* the threshold of the smart strategy for a query of n characters
TierThreshold(n) ==
    IF n <= 3 THEN Num(5, 100) ELSE IF n <= 6 THEN Num(8, 100) ELSE Num(15, 100)

SmartDecision ==
    /\ analysis.intent = "HEADING_CONTENT"
    /\ Gt(analysis.confidence, TierThreshold(Len(query)))

\* an analysis with a recorded heading, as handed to the jump decision
HeadingAnalysis(confidence) ==
    Analysis("HEADING_CONTENT", confidence, Some(<<"a">>),
             DisplayInfo(TRUE, FALSE, FALSE, "heading", <<"a">>, None, None))

\* C17 as stated: with headingJumpStrategy = smart the decision is true if and
\* only if the intent is heading-content and the confidence strictly exceeds
\* 0.05 (query of at most 3 characters), 0.08 (4 to 6) or 0.15 (7 or more).
C17_SmartIffAboveTierThreshold ==
    (Analysed /\ settings.headingJumpStrategy = "smart")
        => (analysis.shouldJumpToHeading <=> SmartDecision)

\* C17 as the code has it: the same, when autoJumpToHeading is enabled (the
\* strategy being smart or left unset); with autoJumpToHeading disabled the
\* decision is false.  A 2-character query jumps at confidence 0.06 and not
\* at 0.04.
C17_SmartIffAboveTierThresholdWhenEnabled ==
    /\ (Analysed /\ settings.headingJumpStrategy \in {"smart", Undefined})
          => /\ analysis.shouldJumpToHeading <=> (settings.autoJumpToHeading /\ SmartDecision)
             /\ analysis.intent = "HEADING_CONTENT" =>
                   OffThreshold(analysis.confidence,
                                {Num(5, 100), Num(8, 100), Num(15, 100)})
    /\ shouldJumpToHeading([autoJumpToHeading |-> TRUE, headingJumpStrategy |-> "smart"],
                           HeadingAnalysis(Num(6, 100)), <<"a", "b">>)
    /\ ~shouldJumpToHeading([autoJumpToHeading |-> TRUE, headingJumpStrategy |-> "smart"],
                            HeadingAnalysis(Num(4, 100)), <<"a", "b">>)

\* a 7-character query whose heading scores 4/35 (between 0.08 and 0.15): no jump
C17_Witness ==
    /\ Analysed
    /\ settings = [autoJumpToHeading |-> TRUE, headingJumpStrategy |-> "smart"]
    /\ Len(query) = 7
    /\ analysis.intent = "HEADING_CONTENT"
    /\ analysis.confidence = Num(4, 35)
    /\ ~analysis.shouldJumpToHeading

\* C18 as stated: with headingJumpStrategy = always the decision is true if
\* and only if the intent is heading-content, whatever the confidence.
C18_AlwaysIffHeadingContent ==
    (Analysed /\ settings.headingJumpStrategy = "always")
        => (analysis.shouldJumpToHeading <=> analysis.intent = "HEADING_CONTENT")

\* C18 as the code has it: the same, when autoJumpToHeading is enabled and the
\* recorded heading text is not empty; otherwise the decision is false.
C18_AlwaysIffHeadingContentWhenEnabled ==
    (Analysed /\ settings.headingJumpStrategy = "always")
        => (analysis.shouldJumpToHeading <=>
                /\ settings.autoJumpToHeading
                /\ analysis.intent = "HEADING_CONTENT"
                /\ analysis.matchedHeading \notin {None, Some(<<>>)})

\* a heading-content match of confidence 0 still jumps
C18_Witness ==
    /\ Analysed
    /\ settings = [autoJumpToHeading |-> TRUE, headingJumpStrategy |-> "always"]
    /\ analysis.intent = "HEADING_CONTENT"
    /\ analysis.confidence = Zero
    /\ analysis.shouldJumpToHeading

\* C19: with headingJumpStrategy = never the decision is false for every
\* analysis, whatever its intent and confidence.
C19_NeverJumps ==
    (Analysed /\ settings.headingJumpStrategy = "never") => ~analysis.shouldJumpToHeading

\* a heading-content match of confidence 1.0 does not jump
C19_Witness ==
    /\ Analysed
    /\ settings = [autoJumpToHeading |-> TRUE, headingJumpStrategy |-> "never"]
    /\ analysis.intent = "HEADING_CONTENT"
    /\ analysis.confidence = One
    /\ ~analysis.shouldJumpToHeading

\* C28: shouldJumpToHeading is true only if the intent is heading-content, the
\* recorded heading is non-empty and autoJumpToHeading is enabled;
\* displayInfo.showHeading is true exactly when shouldJumpToHeading is true,
\* and then showAlias and showTitle are both false.
C28_ShowHeadingIffJump ==
    Analysed =>
        /\ analysis.shouldJumpToHeading =>
              /\ analysis.intent = "HEADING_CONTENT"
              /\ analysis.matchedHeading \notin {None, Some(<<>>)}
              /\ settings.autoJumpToHeading
        /\ analysis.displayInfo.showHeading <=> analysis.shouldJumpToHeading
        /\ analysis.shouldJumpToHeading =>
              /\ ~analysis.displayInfo.showAlias
              /\ ~analysis.displayInfo.showTitle

\* a heading-content match that jumps and shows the heading, and nothing else
C28_Witness ==
    /\ Analysed
    /\ analysis.intent = "HEADING_CONTENT"
    /\ analysis.shouldJumpToHeading
    /\ analysis.displayInfo.showHeading
    /\ analysis.displayInfo.highlightType = "heading"

\* a heading-content match that does not jump: the heading is not shown
C28_WitnessNoJump ==
    /\ Analysed
    /\ analysis.intent = "HEADING_CONTENT"
    /\ settings.autoJumpToHeading
    /\ ~analysis.shouldJumpToHeading
    /\ ~analysis.displayInfo.showHeading

\* the query as calculateMatchIntent normalises it
Normalised(q) == Trim(ToLowerCase(q))

\* C26: analyzeMatch returns the same MatchAnalysis for two queries that are
\* equal after lowercasing and trimming, given the same candidate and
\* settings.
C26_SameAnalysisForEqualNormalisedQueries ==
    Analysed =>
        \A q2 \in Queries :
            Normalised(q2) = Normalised(query)
                => analyzeMatch(settings, cand, q2) = analysis

\* the same, for the intent, the confidence and the recorded heading only
C26_SameIntentForEqualNormalisedQueries ==
    Analysed =>
        \A q2 \in Queries :
            Normalised(q2) = Normalised(query)
                => LET other == analyzeMatch(settings, cand, q2)
                   IN  /\ other.intent = analysis.intent
                       /\ other.confidence = analysis.confidence
                       /\ other.matchedHeading = analysis.matchedHeading

(***************************************************************************)
(* Claims about the ranker.                                                *)
(***************************************************************************)
Sorted == ranked.by # "none" /\ ~ranked.threw

\* the comparison the last rawSearch sorted by
RankComparison(a, b) == comparefn(ranked.by, a, b, query)

RankSign(i, j) == Sign(RankComparison(results[i], results[j]))

Antisymmetric == \A i, j \in 1..Len(results) : RankSign(i, j) = 0 - RankSign(j, i)

Transitive ==
    \A i, j, k \in 1..Len(results) :
        (RankSign(i, j) <= 0 /\ RankSign(j, k) <= 0) => RankSign(i, k) <= 0

\* the position in the engine's order of the result ranked at place i
EnginePosition(i) == CHOOSE n \in 1..Len(results) : results[n] = ranked.order[i]

\* the ranked order agrees with every pairwise comparison, ties in the engine's order
AgreesWithComparison ==
    \A i, j \in 1..Len(ranked.order) :
        i < j => \/ RankSign(EnginePosition(i), EnginePosition(j)) < 0
                 \/ /\ RankSign(EnginePosition(i), EnginePosition(j)) = 0
                    /\ EnginePosition(i) < EnginePosition(j)

\* ranking the same results again can only give the same order
Reproducible == Ranked(ranked.by, results, query) = { ranked }

\* C20: ranking is a strict, reproducible total order with a stable
\* tie-break: the comparison rawSearch sorts by is antisymmetric and
\* transitive over the results, ranking the same results again gives the
\* same order, and results that compare equal keep the engine's order.
C20_RankingIsTotalOrder ==
    ranked.by # "none" =>
        /\ ~ranked.threw
        /\ Antisymmetric
        /\ Transitive
        /\ Reproducible
        /\ AgreesWithComparison

\* the place of the engine's i-th result in the ranked order
Place(i) == CHOOSE n \in 1..Len(ranked.order) : ranked.order[n] = results[i]

\* every span of the result is on one of the keys, and there is a span
MatchedOnlyIn(r, keys) ==
    r.matches # <<>> /\ \A i \in 1..Len(r.matches) : r.matches[i].key \in keys

\* the order of fields the claim states: 1 basename or aliases, 2 headings, 3 title
FieldClass(r) ==
    IF MatchedOnlyIn(r, {"basename", "aliases"}) THEN 1
    ELSE IF MatchedOnlyIn(r, {"headings"}) THEN 2
    ELSE IF MatchedOnlyIn(r, {"title"}) THEN 3
    ELSE 0

\* the factors other than the field priority are the same for both results
OtherFactorsEqual(a, b) ==
    IF ranked.by = "finalScore"
    THEN /\ getMinIndex(a.matches) = getMinIndex(b.matches)
         /\ getBestRatio(a) = getBestRatio(b)
         /\ getMatchedCount(a) = getMatchedCount(b)
    ELSE /\ getMatchQuality(a, query).isExact = getMatchQuality(b, query).isExact
         /\ getMatchQuality(a, query).ratio = getMatchQuality(b, query).ratio
         /\ ScoreOf(a) = ScoreOf(b)

\* C21: all other factors being equal, a result matched in basename or
\* aliases ranks above one matched only in headings, which ranks above one
\* matched only in title.
C21_FieldPriorityOrder ==
    (Sorted /\ Transitive) =>
        \A i, j \in 1..Len(results) :
            ( /\ FieldClass(results[i]) > 0
              /\ FieldClass(results[i]) < FieldClass(results[j])
              /\ OtherFactorsEqual(results[i], results[j]) ) => Place(i) < Place(j)

\* the field-priority and match-ratio factors of the last rawSearch
PriorityFactor(r) ==
    IF ranked.by = "finalScore" THEN getFieldPriority(r.matches) ELSE getMatchQuality(r, query).priority

RatioFactor(r) ==
    IF ranked.by = "finalScore" THEN getBestRatio(r) ELSE getMatchQuality(r, query).ratio

\* the index at which the match of a result matched in one span starts
MatchStart(r) == r.matches[1].indices[1][1]

\* C22: of two results with the same field-priority and match-ratio factors,
\* the one whose match starts at the earlier index is ranked no lower: the
\* comparison never puts the other one strictly first.
C22_EarlierIndexNoLower ==
    (Sorted /\ Transitive) =>
        \A i, j \in 1..Len(results) :
            ( /\ Len(results[i].matches) = 1 /\ Len(results[j].matches) = 1
              /\ PriorityFactor(results[i]) = PriorityFactor(results[j])
              /\ RatioFactor(results[i]) = RatioFactor(results[j])
              /\ MatchStart(results[i]) < MatchStart(results[j]) ) => RankSign(j, i) >= 0

\* the score the last rawSearch ranks a result by is a finite number
ValidScore(r) ==
    IF ranked.by = "finalScore" THEN finalScore(r).k = "num"
    ELSE getMatchQuality(r, query).ratio.k = "num"

\* the factors of a result are all zero (for the comparator of fuzzySearch.ts:
\* no ratio and not exact)
ZeroFactors(r) ==
    IF ranked.by = "finalScore"
    THEN /\ getMinIndex(r.matches) = Zero
         /\ getFieldPriority(r.matches) = 0
         /\ getBestRatio(r) = Zero
         /\ getMatchedCount(r) = Zero
    ELSE /\ getMatchQuality(r, query).ratio = Zero
         /\ ~getMatchQuality(r, query).isExact

\* a span whose value is the empty string or whose runs are single positions
DegenerateSpan(m) ==
    /\ m.isString
    /\ \/ m.value = <<>>
       \/ \E n \in 1..Len(m.indices) : m.indices[n][1] = m.indices[n][2]

\* the results the claim speaks of: no span that lacks its value
ClaimedResults ==
    \A i \in 1..Len(results) :
        \A n \in 1..Len(results[i].matches) : DegenerateSpan(results[i].matches[n])

\* C23: the ranker tolerates degenerate input: ranking never throws, every
\* result whose spans have an empty value or single-position runs gets a
\* finite score, and a result with no spans has all its factors zero.
C23_RankerToleratesDegenerate ==
    (ranked.by # "none" /\ ClaimedResults) =>
        /\ ~ranked.threw
        /\ \A i \in 1..Len(results) : ValidScore(results[i])
        /\ \A i \in 1..Len(results) : results[i].matches = <<>> => ZeroFactors(results[i])

\* the two entries of the worked example
IsProjectPlan(item) == item.basename = ProjectPlan

IsQuarterly(item) == item.title = Some(QuarterlyPlanNotes)

ProjectPlanPlace == CHOOSE n \in 1..Len(ranked.order) : IsProjectPlan(ranked.order[n].item)

QuarterlyPlace == CHOOSE n \in 1..Len(ranked.order) : IsQuarterly(ranked.order[n].item)

\* C25: with a catalog holding an entry with basename "Project Plan" and
\* alias "plan" and an entry with title "Quarterly Plan Notes", the query
\* "plan" classifies the first entry as file-alias with confidence 1.0,
\* classifies the second as title-match, and ranks the first above the second.
C25_PlanExample ==
    /\ (Analysed /\ IsProjectPlan(cand.item))
          => (analysis.intent = "FILE_ALIAS" /\ analysis.confidence = One)
    /\ (Analysed /\ IsQuarterly(cand.item)) => analysis.intent = "TITLE_MATCH"
    /\ Sorted => ProjectPlanPlace < QuarterlyPlace

\* the part of C25 about the first entry, when the engine reports no span
\* in its basename; and the ranking
C25_PlanExampleAliasAndRank ==
    /\ (Analysed /\ IsProjectPlan(cand.item) /\ ~HasSpan("basename"))
          => (analysis.intent = "FILE_ALIAS" /\ analysis.confidence = One)
    /\ (Sorted /\ ranked.by = "quality") => ProjectPlanPlace < QuarterlyPlace

\* what the classifier returns for the second entry, and for the first when
\* the engine reports the basename span
C25_PlanExampleAsClassified ==
    /\ (Analysed /\ IsQuarterly(cand.item))
          => (analysis.intent = "FILE_PARTIAL" /\ analysis.confidence = Num(3, 10))
    /\ (Analysed /\ IsProjectPlan(cand.item) /\ HasSpan("basename"))
          => analysis.intent = "FILE_PARTIAL"

(***************************************************************************)
(* Properties of the catalog notifications.                                *)
(***************************************************************************)
\* the catalog without its first entry at path, unchanged when there is none
RemoveByPath(arr, path) ==
    IF HasPath(arr, path)
    THEN LET i == FindIndex(arr, path) + 1
         IN  SubSeq(arr, 1, i - 1) \o SubSeq(arr, i + 1, Len(arr))
    ELSE arr

RealEntry(path) == [path |-> path, isUnresolved |-> FALSE]

MutatingOps == {"create", "delete", "rename", "renameDeleted", "resolve"}

\* C1: Delete(path) removes exactly the entry at path when there is one and
\* leaves the catalog unchanged when there is none.
C1_DeleteRemovesExactly ==
    last.op = "delete" => files = RemoveByPath(last.pre, last.path)

\* C2: once loaded, and after any notifications, no two catalog entries share a path.
C2_UniquePaths ==
    initialised => UniquePaths(files)

\* C3: Rename(oldPath, newEntry) with oldPath absent from the catalog is a pure
\* Create: the catalog is the previous one plus newEntry, nothing else removed.
C3_RenameAbsentIsCreate ==
    (/\ last.op = "rename"
     /\ ~HasPath(last.pre, last.oldPath)
     /\ ~HasPath(last.pre, last.path))
        => files = Append(last.pre, RealEntry(last.path))

\* C4: after Rename(oldPath, newEntry) no state a query can observe holds an
\* entry at oldPath, and every such state holds an entry at newEntry.path.
C4_RenameAtomic ==
    (last.op = "rename" /\ last.oldPath # last.path)
        => (~HasPath(files, last.oldPath) /\ HasPath(files, last.path))

\* C5 as stated: Create(entry) appends one entry when its path is absent and
\* leaves the catalog unchanged whenever an entry with that path exists.
C5_CreateIdempotent ==
    last.op = "create"
        => IF HasPath(last.pre, last.path)
           THEN files = last.pre
           ELSE files = Append(last.pre, RealEntry(last.path))

\* C5 amended: Create(entry) appends one entry when its path is absent; when the
\* first entry with that path is a real file the catalog is unchanged; when it
\* is an unresolved placeholder it is replaced in place and nothing is added.
C5_CreateIdempotentOrResolves ==
    last.op = "create"
        => LET pre == last.pre
               i == FindIndex(pre, last.path) + 1
           IN  IF ~HasPath(pre, last.path)
               THEN /\ Len(files) = Len(pre) + 1
                    /\ SubSeq(files, 1, Len(pre)) = pre
                    /\ files[Len(files)] = RealEntry(last.path)
               ELSE IF ~pre[i].isUnresolved
               THEN files = pre
               ELSE /\ Len(files) = Len(pre)
                    /\ \A j \in 1..Len(pre) : j # i => files[j] = pre[j]
                    /\ files[i] = RealEntry(last.path)

\* a Create of a path already held by a real file has run and changed nothing
C5_Witness ==
    /\ last.op = "create"
    /\ HasPath(last.pre, last.path)
    /\ ~last.pre[FindIndex(last.pre, last.path) + 1].isUnresolved
    /\ files = last.pre

\* C6: updateUnresolvedFiles appends only targets not already in the catalog, so
\* each unresolved target appears at most once after it has run.
C6_UnresolvedAtMostOnce ==
    (last.op = "resolve" /\ UniquePaths(last.pre))
        => \A i \in 1..Len(last.targets) : CountPath(files, last.targets[i]) <= 1

\* C7 as stated: Create(e) followed by Delete(e.path) restores the catalog,
\* whatever the catalog was.
C7_RoundTrip ==
    roundTrip.stage = "deleted" => files = roundTrip.pre

\* C7 amended: Create(e) followed by Delete(e.path) restores the catalog when
\* the catalog held no entry at e.path before the Create.
C7_RoundTripWhenAbsent ==
    (roundTrip.stage = "deleted" /\ ~HasPath(roundTrip.pre, roundTrip.path))
        => files = roundTrip.pre

\* a Create of an absent path and the Delete of that path have run on a non-empty catalog
C7_Witness ==
    /\ roundTrip.stage = "deleted"
    /\ ~HasPath(roundTrip.pre, roundTrip.path)
    /\ Len(roundTrip.pre) > 0
    /\ files = roundTrip.pre

\* C8: a notification that changed the catalog called updateSearchArray exactly
\* once, with the catalog as the notification left it.
C8_ReindexOncePerNotification ==
    (last.op \in MutatingOps /\ files # last.pre)
        => (reindexLog = <<files>> /\ fuse = files)

\* a links-resolved notification has pushed two placeholders and re-indexed once
C8_Witness ==
    /\ last.op = "resolve"
    /\ Len(files) = Len(last.pre) + 2
    /\ Len(reindexLog) = 1

(***************************************************************************)
(* Properties of the suggester.                                            *)
(***************************************************************************)
Asked == suggest.outcome # "none"

Called(name) == \E i \in 1..Len(suggest.calls) : suggest.calls[i] = name

\* C24: getSuggestions returns an empty sequence, without invoking the
\* matcher, ranker or classifier and without error, for every query that is
\* empty or consists only of whitespace, whatever the catalog contains.
C24_BlankQueryReturnsEmpty ==
    (Asked /\ \A i \in 1..Len(suggest.input) : suggest.input[i] \in Whitespace)
        => (suggest.outcome = "empty" /\ suggest.calls = <<>>)

\* a query of two spaces against a loaded catalog of two entries
C24_Witness ==
    /\ suggest.input = <<" ", " ">>
    /\ suggest.outcome = "empty"
    /\ suggest.ready
    /\ Len(fuse) >= 2

\* the same query before the catalog and the engine exist
C24_WitnessBeforeLoad ==
    /\ suggest.input = <<" ", " ">>
    /\ suggest.outcome = "empty"
    /\ ~suggest.ready

\* the entry passes the filter key: by extension when the key is an
\* extension, by file type otherwise
MatchesFilter(f, filterKey) ==
    IF isValidExtension(filterKey)
    THEN ExtensionOf(f.path) = filterKey
    ELSE FileTypeOf(f.path) = filterKey

\* the callback of the last setFileFilter has run
FilterInEffect ==
    /\ activeFilter # NoFilter
    /\ \A i \in 1..Len(pending) : pending[i].cb # "filter"

\* C27: after setFileFilter(k) has taken effect, and across any subsequent
\* Create, Delete, Rename and ResolveUnresolved notifications until the next
\* setFileFilter, the engine's collection contains only entries that match k.
C27_CollectionMatchesFilter ==
    FilterInEffect => \A i \in 1..Len(fuse) : MatchesFilter(fuse[i], activeFilter[1])

\* the same, in the state the filter callback leaves, for a key other than
\* the markdown file type
C27_CollectionMatchesFilterAtOnce ==
    (FilterInEffect /\ last.op = "filter" /\ activeFilter[1] # MarkdownType)
        => \A i \in 1..Len(fuse) : MatchesFilter(fuse[i], activeFilter[1])

\* C29: in every interleaving of cache-settled callbacks, file events,
\* links-resolved events and user queries, whenever getSuggestions runs the
\* engine on a non-empty query or an update callback mutates the catalog, the
\* catalog and the engine have been initialised by the initial callback.
C29_InitialisedBeforeUse ==
    /\ Called("rawSearch") => suggest.ready
    /\ last.op # "TypeError"
    /\ last.op \in MutatingOps => initialised

\* the part of C29 about the callbacks: none runs before the load callback
C29_CallbacksAfterLoad ==
    /\ last.op # "TypeError"
    /\ last.op \in MutatingOps \cup {"filter"} => initialised

\* C30: after useSelectedItem has handled a selection, on every path (heading
\* jump, web URL, open existing file, create file), the suggester is closed
\* and its keyboard scope is no longer active, whatever hideOnBlur is and
\* whether or not the input has focus.
C30_ClosedAfterSelection ==
    ui.handled # "none" => ~ui.open

====
